---- MODULE Spec2Model ----
(***************************************************************************)
(* Model of the tsql-interpreter front end: the byte-span lexer            *)
(* (sql_parser/src/lexer_new.rs), the keyword table                        *)
(* (sql_lexer/src/keyword.rs) and the recursive-descent / Pratt parser     *)
(* (sql_parser/src/lib.rs).                                                *)
(***************************************************************************)
EXTENDS Integers, Sequences, FiniteSets, TLC

VARIABLES
    \* ---- lexer (lexer_new.rs) ----
    input,        \* Lexer.input: the source text, a sequence of characters
    lx,           \* Lexer cursor: current_position, read_position, chars, ch
    out,          \* every Some(..) that next() has returned, in order
    ended,        \* number of times next() has returned None
    skipped,      \* byte offsets consumed by skip_whitespace so far
    status,       \* "running", or "aborted" once a call has panicked
    \* ---- keyword table (keyword.rs) ----
    kw_query,     \* the spelling handed to lookup_keyword
    kw_index,     \* position in ALL_KEYWORDS the spelling was derived from
    kw_impl,      \* which std binary_search the build uses
    kw_result,    \* <<>> before the call, <<r>> after (r = 0 for None)
    \* ---- parser (lib.rs) ----
    tokens,       \* the token stream the parser's lexer produces
    parser,       \* Parser: lexer position, current_token, peek_token, errors
    query,        \* ast::Query.statements built by parse()
    pc,           \* "parsing" while parse() loops, "done" once it returned
    \* ---- calls of single functions (error.rs, formatter.rs, ast) ----
    call,         \* the function called and its arguments, <<>> if none
    result,       \* <<>> before the call returns, <<r>> after
    first_run,    \* <<>>, or what a lexer yielded before a fresh one started
    \* ---- formatter (formatter.rs) ----
    formatter     \* Formatter: settings, formatted_query; <<>> if none

lexer_vars   == <<input, lx, out, ended, skipped, status>>
keyword_vars == <<kw_query, kw_index, kw_impl, kw_result>>
parser_vars  == <<tokens, parser, query, pc>>
call_vars    == <<call, result, first_run, formatter>>
vars == <<input, lx, out, ended, skipped, status,
          kw_query, kw_index, kw_impl, kw_result,
          tokens, parser, query, pc, call, result, first_run,
          formatter>>

----------------------------------------------------------------------------
(* Bounds *)

\* longest source text the lexer is run on
MaxLen == 3
\* how many times next() is called again after it first returned None
MaxNone == 2

----------------------------------------------------------------------------
(* Characters *)

\* a `let` binding: the value v, computed once, is what F's parameter names
Bind(v, F(_)) == CHOOSE r \in {F(x) : x \in {v}} : TRUE

None == "None"

LowerLetters == <<"a","b","c","d","e","f","g","h","i","j","k","l","m",
                  "n","o","p","q","r","s","t","u","v","w","x","y","z">>
UpperLetters == <<"A","B","C","D","E","F","G","H","I","J","K","L","M",
                  "N","O","P","Q","R","S","T","U","V","W","X","Y","Z">>
Digits == <<"0","1","2","3","4","5","6","7","8","9">>

Range(s) == {s[i] : i \in DOMAIN s}

IsAlphabetic(c) == c \in Range(LowerLetters) \cup Range(UpperLetters)
IsNumeric(c) == c \in Range(Digits)
IsAlphanumeric(c) == IsAlphabetic(c) \/ IsNumeric(c)
IsWhitespace(c) == c \in {" ", "\n", "\t"}

\* the characters source texts are made of
Alphabet == {" ", "\n", "a", "s", "1", "_", ".", "'", "[", "]", "@",
             "-", "<", ">", "=", "!", "#", ","}

\* all texts over Alphabet of length at most n
Texts(n) == UNION {[1..k -> Alphabet] : k \in 0..n}

----------------------------------------------------------------------------
(* Keyword table: keyword.rs *)

\* define_keywords!(...): the spellings in declaration order
ALL_KEYWORDS == <<
    <<"A","B","S">>, <<"A","C","O","S">>, <<"A","L","L">>,
    <<"A","L","T","E","R">>, <<"A","N","D">>, <<"A","N","Y">>, <<"A","S">>,
    <<"A","S","C">>, <<"A","S","I","N">>, <<"A","T","A","N">>,
    <<"A","U","T","O","I","N","C","R","E","M","E","N","T">>, <<"A","V","G">>,
    <<"B","E","G","I","N">>, <<"B","E","T","W","E","E","N">>,
    <<"B","I","G","I","N","T">>, <<"B","I","T">>, <<"B","Y">>,
    <<"C","A","S","C","A","D","E">>, <<"C","A","S","E">>, <<"C","A","S","T">>,
    <<"C","E","I","L">>, <<"C","E","I","L","I","N","G">>, <<"C","H","A","R">>,
    <<"C","O","L","U","M","N">>, <<"C","O","L","U","M","N","S">>,
    <<"C","O","M","M","I","T">>, <<"C","O","M","M","I","T","E","D">>,
    <<"C","O","N","S","T","R","A","I","N","T">>, <<"C","O","S">>,
    <<"C","O","T">>, <<"C","O","U","N","T">>, <<"C","R","E","A","T","E">>,
    <<"C","U","R","R","E","N","T">>, <<"D","A","T","E">>,
    <<"D","A","T","E","T","I","M","E">>, <<"D","A","Y">>,
    <<"D","A","Y","O","F","W","E","E","K">>,
    <<"D","A","Y","O","F","Y","E","A","R">>, <<"D","E","C","I","M","A","L">>,
    <<"D","E","C","L","A","R","E">>, <<"D","E","G","R","E","E","S">>,
    <<"D","E","F","A","U","L","T">>, <<"D","E","L","E","T","E">>,
    <<"D","E","N","S","E","_","R","A","N","K">>, <<"D","E","S","C">>,
    <<"D","E","S","C","R","I","B","E">>, <<"D","I","S","T","I","N","C","T">>,
    <<"D","O">>, <<"D","R","O","P">>, <<"E","L","S","E">>, <<"E","N","D">>,
    <<"E","N","G","I","N","E">>, <<"E","X","E","C">>,
    <<"E","X","E","C","U","T","E">>, <<"E","X","I","S","T","S">>,
    <<"E","X","P">>, <<"F","A","L","S","E">>, <<"F","E","T","C","H">>,
    <<"F","I","R","S","T">>, <<"F","I","R","S","T","_","V","A","L","U","E">>,
    <<"F","L","O","A","T">>, <<"F","L","O","O","R">>,
    <<"F","O","L","L","O","W","I","N","G">>, <<"F","O","R","E","I","G","N">>,
    <<"F","R","O","M">>, <<"F","U","L","L">>,
    <<"F","U","N","C","T","I","O","N">>, <<"G","E","T","D","A","T","E">>,
    <<"G","R","O","U","P">>, <<"H","A","V","I","N","G">>, <<"H","O","U","R">>,
    <<"H","O","U","R","S">>, <<"I","D","E","N","T","I","T","Y">>, <<"I","F">>,
    <<"I","N">>, <<"I","N","C","R","E","M","E","N","T">>,
    <<"I","N","D","E","X">>, <<"I","N","N","E","R">>,
    <<"I","N","S","E","R","T">>, <<"I","N","T","E","G","E","R">>,
    <<"I","N","T","E","R","S","E","C","T">>, <<"I","N","T">>,
    <<"I","N","T","O">>, <<"I","S">>, <<"J","O","I","N">>, <<"K","E","Y">>,
    <<"L","A","G">>, <<"L","A","S","T">>,
    <<"L","A","S","T","_","V","A","L","U","E">>, <<"L","E","A","D">>,
    <<"L","E","F","T">>, <<"L","I","K","E">>, <<"L","I","M","I","T">>,
    <<"L","O","G">>, <<"L","O","G","1","0">>, <<"M","A","X">>,
    <<"M","I","C","R","O","S","E","C","O","N","D">>,
    <<"M","I","C","R","O","S","E","C","O","N","D","S">>,
    <<"M","I","L","L","I","S","E","C","O","N","D">>,
    <<"M","I","L","L","I","S","E","C","O","N","D","S">>, <<"M","I","N">>,
    <<"M","I","N","U","T","E">>, <<"M","O","N","T","H">>,
    <<"N","A","N","O","S","E","C","O","N","D">>,
    <<"N","A","N","O","S","E","C","O","N","D","S">>, <<"N","C","H","A","R">>,
    <<"N","E","X","T">>, <<"N","O","T">>, <<"N","U","L","L">>,
    <<"N","U","L","L","I","F">>, <<"N","U","M","E","R","I","C">>,
    <<"N","V","A","R","C","H","A","R">>, <<"O","F","F","S","E","T">>,
    <<"O","N">>, <<"O","N","L","Y">>, <<"O","R">>, <<"O","R","D","E","R">>,
    <<"O","U","T","E","R">>, <<"O","V","E","R">>,
    <<"P","A","R","T","I","T","I","O","N">>,
    <<"P","A","S","S","W","O","R","D">>, <<"P","E","R","C","E","N","T">>,
    <<"P","I">>, <<"P","O","W","E","R">>,
    <<"P","R","E","C","E","D","I","N","G">>,
    <<"P","R","O","C","E","D","U","R","E">>, <<"R","A","D","I","A","N","S">>,
    <<"R","A","N","D","S">>, <<"R","A","N","G","E">>, <<"R","A","N","K">>,
    <<"R","E","A","L">>, <<"R","E","T","U","R","N">>,
    <<"R","E","T","U","R","N","S">>, <<"R","E","V","O","K","E">>,
    <<"R","I","G","H","T">>, <<"R","O","L","E">>,
    <<"R","O","L","L","B","A","C","K">>, <<"R","O","U","N","D">>,
    <<"R","O","W">>, <<"R","O","W","I","D">>, <<"R","O","W","S">>,
    <<"R","O","W","_","N","U","M","B","E","R">>, <<"S","E","C","O","N","D">>,
    <<"S","E","L","E","C","T">>, <<"S","E","T">>, <<"S","I","G","N">>,
    <<"S","I","N">>, <<"S","M","A","L","L","I","N","T">>,
    <<"S","N","A","P","S","H","O","T">>, <<"S","O","M","E">>,
    <<"S","Q","R","T">>, <<"S","Q","U","A","R","E">>, <<"S","T","A","G","E">>,
    <<"S","T","A","R","T">>, <<"S","T","A","T","I","S","T","I","C","S">>,
    <<"S","T","D","E","V">>, <<"S","T","D","E","V","P">>, <<"S","U","M">>,
    <<"T","A","B","L","E">>, <<"T","A","N">>, <<"T","E","M","P">>,
    <<"T","H","E","N">>, <<"T","I","E","S">>, <<"T","I","M","E">>,
    <<"T","I","N","Y","I","N","T">>, <<"T","O","P">>,
    <<"T","R","A","N","S","A","C","T","I","O","N">>,
    <<"T","R","I","G","G","E","R">>, <<"T","R","U","E">>,
    <<"T","R","U","N","C","A","T","E">>,
    <<"U","N","B","O","U","N","D","E","D">>,
    <<"U","N","C","O","M","M","I","T","T","E","D">>, <<"U","N","I","O","N">>,
    <<"U","N","I","Q","U","E">>, <<"U","N","L","O","C","K">>,
    <<"U","P","D","A","T","E">>, <<"U","P","P","E","R">>, <<"U","S","E">>,
    <<"U","S","E","R">>, <<"U","U","I","D">>, <<"V","A","L","U","E">>,
    <<"V","A","L","U","E","S">>, <<"V","A","R","B","I","N","A","R","Y">>,
    <<"V","A","R","C","H","A","R">>, <<"V","A","R">>, <<"V","A","R","P">>,
    <<"W","E","E","K">>, <<"W","H","E","N">>, <<"W","H","E","R","E">>,
    <<"W","I","N","D","O","W">>, <<"W","I","T","H">>, <<"Y","E","A","R">>
>>

\* enum Keyword: a keyword is identified by its declaration ordinal, and
\* ALL_KEYWORDS_INDEX lists the variants in declaration order
ALL_KEYWORDS_INDEX == [i \in 1..Len(ALL_KEYWORDS) |-> i]

\* ASCII code of the characters identifiers are made of
CharCode(c) ==
    IF \E i \in DOMAIN Digits : Digits[i] = c
    THEN 47 + (CHOOSE i \in DOMAIN Digits : Digits[i] = c)
    ELSE IF \E i \in DOMAIN UpperLetters : UpperLetters[i] = c
    THEN 64 + (CHOOSE i \in DOMAIN UpperLetters : UpperLetters[i] = c)
    ELSE IF \E i \in DOMAIN LowerLetters : LowerLetters[i] = c
    THEN 96 + (CHOOSE i \in DOMAIN LowerLetters : LowerLetters[i] = c)
    ELSE 95

\* str::to_uppercase on ASCII text
to_uppercase(text) ==
    [i \in DOMAIN text |->
        IF \E j \in DOMAIN LowerLetters : LowerLetters[j] = text[i]
        THEN UpperLetters[CHOOSE j \in DOMAIN LowerLetters :
                              LowerLetters[j] = text[i]]
        ELSE text[i]]

\* Ord for str: byte-wise lexicographic; "Less", "Equal" or "Greater"
RECURSIVE str_cmp_from(_, _, _)
str_cmp_from(a, b, i) ==
    IF i > Len(a) /\ i > Len(b) THEN "Equal"
    ELSE IF i > Len(a) THEN "Less"
    ELSE IF i > Len(b) THEN "Greater"
    ELSE IF CharCode(a[i]) < CharCode(b[i]) THEN "Less"
    ELSE IF CharCode(a[i]) > CharCode(b[i]) THEN "Greater"
    ELSE str_cmp_from(a, b, i + 1)

str_cmp(a, b) == str_cmp_from(a, b, 1)

\* slice::binary_search as std implements it with a left/right window;
\* indices are 0-based as in std, the result is the 1-based position, 0 = Err
RECURSIVE binary_search_loop(_, _, _, _, _)
binary_search_loop(table, x, left, right, size) ==
    IF left < right
    THEN Bind(left + size \div 2, LAMBDA mid :
           Bind(str_cmp(table[mid + 1], x), LAMBDA cmp :
             IF cmp = "Less"
             THEN binary_search_loop(table, x, mid + 1, right, right - (mid + 1))
             ELSE IF cmp = "Greater"
             THEN binary_search_loop(table, x, left, mid, mid - left)
             ELSE mid + 1))
    ELSE 0

\* slice::binary_search as newer std implements it (branchless halving)
RECURSIVE binary_search_halving(_, _, _, _)
binary_search_halving(table, x, base, size) ==
    IF size > 1
    THEN LET half == size \div 2
             mid == base + half
         IN  binary_search_halving(table, x,
                 IF str_cmp(table[mid + 1], x) = "Greater" THEN base ELSE mid,
                 size - half)
    ELSE IF str_cmp(table[base + 1], x) = "Equal" THEN base + 1 ELSE 0

SearchImpls == {"window", "halving"}

binary_search(table, x, impl) ==
    IF Len(table) = 0 THEN 0
    ELSE IF impl = "window"
    THEN binary_search_loop(table, x, 0, Len(table), Len(table))
    ELSE binary_search_halving(table, x, 0, Len(table))

\* lookup_keyword: 0 for None, else the Keyword found
lookup_keyword(keyword, impl) ==
    Bind(to_uppercase(keyword), LAMBDA normalized_keyword :
      Bind(binary_search(ALL_KEYWORDS, normalized_keyword, impl), LAMBDA index :
        IF index # 0 THEN ALL_KEYWORDS_INDEX[index] ELSE 0))

----------------------------------------------------------------------------
(* Lexer: lexer_new.rs *)

\* char::len_utf8: the number of bytes a character takes in a &str
len_utf8(c) == IF c = "U+20AC" THEN 3 ELSE 1

\* str::len: the length of a text in bytes
RECURSIVE str_len(_)
str_len(text) ==
    IF text = <<>> THEN 0 ELSE len_utf8(Head(text)) + str_len(Tail(text))

\* the byte offset at which the character after the first i ones starts
byte_offset(i) == str_len(SubSeq(input, 1, i))

\* str::is_char_boundary
is_char_boundary(b) == \E i \in 0..Len(input) : byte_offset(i) = b

has_more_tokens(L) == L.read_position < str_len(input)

\* std::iter::Peekable<Chars>: `chars` counts the characters already taken
chars_peek(L) == IF L.chars < Len(input) THEN input[L.chars + 1] ELSE None

read_char(L) ==
    [ch |-> IF has_more_tokens(L) THEN chars_peek(L) ELSE None,
     chars |-> IF has_more_tokens(L) /\ L.chars < Len(input)
               THEN L.chars + 1 ELSE L.chars,
     current_position |-> L.read_position,
     read_position |-> L.read_position + 1]

LexerNew == read_char([ch |-> None, chars |-> 0,
                       current_position |-> 0, read_position |-> 0])

RECURSIVE skip_whitespace(_)
skip_whitespace(L) ==
    IF L.ch # None /\ IsWhitespace(L.ch)
    THEN skip_whitespace(read_char(L))
    ELSE L

\* &self.input[s..e]: ok is FALSE when the slice expression panics
slice(s, e) ==
    IF s <= e /\ e <= str_len(input)
       /\ is_char_boundary(s) /\ is_char_boundary(e)
    THEN [ok |-> TRUE,
          text |-> SubSeq(input,
                     (CHOOSE i \in 0..Len(input) : byte_offset(i) = s) + 1,
                     CHOOSE i \in 0..Len(input) : byte_offset(i) = e)]
    ELSE [ok |-> FALSE, text |-> <<>>]

RECURSIVE read_identifier_loop(_)
read_identifier_loop(L) ==
    IF chars_peek(L) # None
       /\ (IsAlphanumeric(chars_peek(L)) \/ chars_peek(L) = "_")
    THEN read_identifier_loop(read_char(L))
    ELSE L

read_identifier(L) ==
    LET start == L.current_position
        E == read_identifier_loop(L)
    IN  [lx |-> E, err |-> FALSE, s |-> slice(start, E.current_position + 1)]

RECURSIVE read_until(_, _)
read_until(L, close) ==
    IF chars_peek(L) # None /\ chars_peek(L) # close
    THEN read_until(read_char(L), close)
    ELSE L

\* read_quoted_identifier (close = "]") and read_string_literal (close = "'")
\* are the same code up to the delimiter and the error kind
read_delimited(L, close) ==
    LET L1 == read_char(L)
        start == L1.current_position
        L2 == read_until(L1, close)
    IN  IF chars_peek(L2) # None /\ chars_peek(L2) = close
        THEN LET L3 == read_char(L2)
             IN  [lx |-> L3, err |-> FALSE,
                  s |-> slice(start, L3.current_position)]
        ELSE [lx |-> L2, err |-> TRUE, s |-> [ok |-> TRUE, text |-> <<>>]]

read_quoted_identifier(L) == read_delimited(L, "]")

read_string_literal(L) == read_delimited(L, "'")

RECURSIVE read_comment_loop(_)
read_comment_loop(c) ==
    IF chars_peek(c.lx) # None /\ chars_peek(c.lx) # "\n"
    THEN LET L2 == read_char(c.lx)
             nonblank == L2.ch # None /\ ~IsWhitespace(L2.ch)
         IN  read_comment_loop(
                 [lx |-> L2,
                  start |-> IF nonblank /\ ~c.start_found
                            THEN L2.current_position ELSE c.start,
                  start_found |-> c.start_found \/ nonblank,
                  end |-> IF nonblank THEN L2.current_position ELSE c.end])
    ELSE c

read_comment(L) ==
    LET L1 == read_char(L)
        c == read_comment_loop([lx |-> L1,
                                start |-> L1.current_position,
                                end |-> L1.current_position,
                                start_found |-> FALSE])
        L3 == read_char(c.lx)
    IN  [lx |-> L3, err |-> FALSE, s |-> slice(c.start, c.end + 1)]

RECURSIVE read_digits(_)
read_digits(L) ==
    IF chars_peek(L) # None /\ IsNumeric(chars_peek(L))
    THEN read_digits(read_char(L))
    ELSE L

read_number_literal(L) ==
    LET start == L.current_position
        L1 == read_digits(L)
        L2 == IF chars_peek(L1) = "." THEN read_digits(read_char(L1)) ELSE L1
    IN  [lx |-> L2, err |-> FALSE, s |-> slice(start, L2.current_position + 1)]

\* Token { kind, span } as next_lex builds it; kw is the Keyword of a
\* Keyword token (0 otherwise), text the borrowed payload
Token(kind, text, kw, start, end) ==
    [tag |-> "Ok", kind |-> kind, text |-> text, kw |-> kw,
     start |-> start, end |-> end]

\* LexicalError { error }; start is next_lex's local `start`
LexicalError(error, start) ==
    [tag |-> "Err", kind |-> error, text |-> <<>>, kw |-> 0,
     start |-> start, end |-> start]

\* the call did not return: a slice index was out of range
Panicked(start) ==
    [tag |-> "Panic", kind |-> "panic", text |-> <<>>, kw |-> 0,
     start |-> start, end |-> start]

\* mutation of token_start: the start taken before skip_whitespace
token_start_before_skip(L, S) == L.current_position

\* `let start = self.current_position as u32;` taken after skip_whitespace:
\* L is the cursor before skip_whitespace, S the cursor after it
token_start(L, S) == S.current_position

\* lines 229-231: the span ends at current_position, then one read_char
finish(E, kind, text, kw, start) ==
    [lx |-> read_char(E),
     res |-> Token(kind, text, kw, start, E.current_position)]

\* a token whose payload is the slice a read_* helper returned
finish_read(r, kind, start) ==
    IF ~r.s.ok
    THEN [lx |-> r.lx, res |-> Panicked(start)]
    ELSE finish(r.lx, kind, r.s.text, 0, start)

\* the two `Err(error) => { self.read_char(); return Err(error); }` arms
finish_delimited(r, kind, error, start) ==
    IF r.err
    THEN [lx |-> read_char(r.lx), res |-> LexicalError(error, start)]
    ELSE finish_read(r, kind, start)

next_lex(L, impl) ==
    LET S == skip_whitespace(L)
        start == token_start(L, S)
        ch == S.ch
        pk == chars_peek(S)
        plain(kind) == finish(S, kind, <<>>, 0, start)
    IN  IF ch = None THEN plain("Eof")
        ELSE IF ch = "," THEN plain("Comma")
        ELSE IF ch = "(" THEN plain("LeftParen")
        ELSE IF ch = ")" THEN plain("RightParen")
        ELSE IF ch = "=" THEN plain("Equal")
        ELSE IF ch = "!" /\ pk = "=" THEN plain("BangEqual")
        ELSE IF ch = "<" /\ pk = "=" THEN plain("LessThanEqual")
        ELSE IF ch = ">" /\ pk = "=" THEN plain("GreaterThanEqual")
        ELSE IF ch = "<" /\ pk = ">" THEN plain("LessThanGreaterThan")
        ELSE IF ch = "<" THEN plain("LessThan")
        ELSE IF ch = ">" THEN plain("GreaterThan")
        ELSE IF ch = "+" THEN plain("Plus")
        ELSE IF ch = "-" /\ pk = "-"
             THEN finish_read(read_comment(read_char(S)), "Comment", start)
        ELSE IF ch = "-" THEN plain("Minus")
        ELSE IF ch = "/" THEN plain("ForwardSlash")
        ELSE IF ch = "*" THEN plain("Asterisk")
        ELSE IF ch = "%" THEN plain("Percent")
        ELSE IF ch = "." THEN plain("Period")
        ELSE IF ch = ";" THEN plain("SemiColon")
        ELSE IF ch = "[" /\ pk # None /\ IsAlphabetic(pk)
             THEN finish_delimited(read_quoted_identifier(S),
                      "QuotedIdentifier", "UnexpectedQuotedIdentifierEnd",
                      start)
        ELSE IF ch = "'"
             THEN finish_delimited(read_string_literal(S),
                      "StringLiteral", "UnexpectedStringEnd", start)
        ELSE IF ch = "@" /\ pk # None /\ IsAlphabetic(pk)
             THEN finish_read(read_identifier(read_char(S)),
                      "LocalVariable", start)
        ELSE IF IsAlphabetic(ch)
             THEN LET r == read_identifier(S)
                      keyword == lookup_keyword(r.s.text, impl)
                  IN  IF ~r.s.ok THEN [lx |-> r.lx, res |-> Panicked(start)]
                      ELSE IF keyword # 0
                      THEN finish(r.lx, "Keyword", r.s.text, keyword, start)
                      ELSE finish(r.lx, "Identifier", r.s.text, 0, start)
        ELSE IF ch = "_" /\ pk # None /\ IsAlphabetic(pk)
             THEN finish_read(read_identifier(S), "Identifier", start)
        ELSE IF IsNumeric(ch)
             THEN finish_read(read_number_literal(S), "NumberLiteral", start)
        ELSE [lx |-> read_char(S),
              res |-> LexicalError("UnrecognizedToken", start)]

\* impl Iterator for Lexer: <<>> is None, <<r>> is Some(r)
lexer_next(L, impl) ==
    LET r == next_lex(L, impl)
    IN  [lx |-> r.lx,
         item |-> IF r.res.tag = "Ok" /\ r.res.kind = "Eof"
                  THEN <<>> ELSE <<r.res>>]

----------------------------------------------------------------------------
(* Lexer state machine: one action per call of next() *)

KeywordIdle == kw_query = <<>> /\ kw_index = 0 /\ kw_result = <<>>

ParserIdle == tokens = <<>> /\ parser = <<>> /\ query = <<>> /\ pc = "idle"

CallIdle ==
    call = <<>> /\ result = <<>> /\ first_run = <<>> /\ formatter = <<>>

Init ==
    /\ input \in Texts(MaxLen)
    /\ lx = LexerNew
    /\ out = <<>>
    /\ ended = 0
    /\ skipped = {}
    /\ status = "running"
    /\ kw_impl \in SearchImpls
    /\ KeywordIdle
    /\ ParserIdle
    /\ CallIdle

LexerNext ==
    /\ status = "running"
    /\ ended < MaxNone
    /\ \E r \in {lexer_next(lx, kw_impl)}, S \in {skip_whitespace(lx)} :
           IF r.item # <<>> /\ r.item[1].tag = "Panic"
           THEN /\ status' = "aborted"
                /\ UNCHANGED <<lx, out, ended, skipped>>
           ELSE /\ lx' = r.lx
                /\ out' = out \o r.item
                /\ ended' = IF r.item = <<>> THEN ended + 1 ELSE ended
                /\ skipped' = skipped \cup
                       (lx.current_position .. (S.current_position - 1))
                /\ UNCHANGED status
    /\ UNCHANGED <<input, keyword_vars, parser_vars, call_vars>>

Next == LexerNext

Spec == Init /\ [][Next]_vars

\* the caller goes on calling next(): a call that can be made is made
LiveAlphabet == {"a", " ", "-", "#", "'"}

LiveInit ==
    /\ input \in UNION {[1..k -> LiveAlphabet] : k \in 0..MaxLen}
    /\ lx = LexerNew
    /\ out = <<>>
    /\ ended = 0
    /\ skipped = {}
    /\ status = "running"
    /\ kw_impl = "window"
    /\ KeywordIdle
    /\ ParserIdle
    /\ CallIdle

LiveSpec == LiveInit /\ [][Next]_vars /\ WF_vars(Next)

----------------------------------------------------------------------------
(* Lexer run on texts that open with a delimiter: `--`, `'` or `[` *)

\* longest text after the opening delimiter
MaxBody == 3

\* the characters the text after the delimiter is made of
BodyAlphabet == {"a", "s", "1", " ", "\n", "'", "]"}

TextsOver(A, n) == UNION {[1..k -> A] : k \in 0..n}

Openers == {<<"-", "-">>, <<"'">>, <<"[">>}

DelimitedTexts ==
    {o \o b : o \in Openers, b \in TextsOver(BodyAlphabet, MaxBody)}

DelimitedInit ==
    /\ input \in DelimitedTexts
    /\ lx = LexerNew
    /\ out = <<>>
    /\ ended = 0
    /\ skipped = {}
    /\ status = "running"
    /\ kw_impl \in SearchImpls
    /\ KeywordIdle
    /\ ParserIdle
    /\ CallIdle

DelimitedSpec == DelimitedInit /\ [][Next]_vars

----------------------------------------------------------------------------
(* Keyword lookup: one call of lookup_keyword on a chosen spelling *)

LexerIdle ==
    /\ input = <<>> /\ lx = <<>> /\ out = <<>> /\ ended = 0
    /\ skipped = {} /\ status = "idle"

\* the casings a spelling is looked up in
Casings == {"upper", "lower", "capitalized", "alternating"}

to_lowercase(text) ==
    [i \in DOMAIN text |->
        IF \E j \in DOMAIN UpperLetters : UpperLetters[j] = text[i]
        THEN LowerLetters[CHOOSE j \in DOMAIN UpperLetters :
                              UpperLetters[j] = text[i]]
        ELSE text[i]]

Cased(text, casing) ==
    [i \in DOMAIN text |->
        IF casing = "upper" THEN text[i]
        ELSE IF casing = "lower" THEN to_lowercase(text)[i]
        ELSE IF casing = "capitalized"
        THEN (IF i = 1 THEN text[i] ELSE to_lowercase(text)[i])
        ELSE (IF i % 2 = 0 THEN text[i] ELSE to_lowercase(text)[i])]

\* identifiers that are not reserved words
NonKeywords == {<<"F","O","R","M">>, <<"a">>, <<"_","a">>, <<"A","S","1">>}

KeywordInit ==
    /\ kw_impl \in SearchImpls
    /\ \/ \E i \in DOMAIN ALL_KEYWORDS, c \in Casings :
              /\ kw_index = i
              /\ kw_query = Cased(ALL_KEYWORDS[i], c)
       \/ /\ kw_index = 0
          /\ kw_query \in NonKeywords
    /\ kw_result = <<>>
    /\ LexerIdle
    /\ ParserIdle
    /\ CallIdle

KeywordLookup ==
    /\ kw_result = <<>>
    /\ kw_result' = <<lookup_keyword(kw_query, kw_impl)>>
    /\ UNCHANGED <<kw_query, kw_index, kw_impl, lexer_vars, parser_vars,
                   call_vars>>

KeywordNext == KeywordLookup

KeywordSpec == KeywordInit /\ [][KeywordNext]_vars

----------------------------------------------------------------------------
(* Parser: lib.rs *)

\* token::Token as the parser sees it: a Kind and a literal.  Keyword kinds
\* (Kind::Keyword(Keyword::X)) are written as the keyword's spelling.
Tok(kind, literal) == [kind |-> kind, literal |-> literal]

EofToken == Tok("Eof", "")

PRECEDENCE_HIGHEST == 8
PRECEDENCE_PRODUCT == 7
PRECEDENCE_SUM == 6
PRECEDENCE_COMPARISON == 5
PRECEDENCE_NOT == 4
PRECEDENCE_AND == 3
PRECEDENCE_OTHER_LOGICALS == 2
PRECEDENCE_LOWEST == 1

\* Option<T>: <<>> is None, <<v>> is Some(v)
Some(v) == <<v>>
NoneOpt == <<>>
is_some(o) == o # <<>>

\* what a parse_* method leaves behind: the parser and the value returned
Ret(P, r) == [p |-> P, r |-> r]

\* lexer::Lexer::next_token: the next token of the stream, Eof once the
\* stream is used up; n is the number of tokens already handed out
lexer_next_token(n) ==
    IF n < Len(tokens)
    THEN [lexer |-> n + 1, token |-> tokens[n + 1]]
    ELSE [lexer |-> n, token |-> EofToken]

next_token(P) ==
    Bind(lexer_next_token(P.lexer), LAMBDA t :
      [P EXCEPT !.current_token = P.peek_token,
                  !.peek_token = t.token,
                  !.lexer = t.lexer])

ParserNew ==
    next_token(next_token([lexer |-> 0, current_token |-> EofToken,
                           peek_token |-> EofToken, errors |-> <<>>]))

\* make_error / make_string_error: the message, kept as its parts
make_error(token_kind, token) ==
    [msg |-> "expected token to be", expected |-> token_kind, token |-> token]

make_string_error(msg, token) ==
    [msg |-> msg, expected |-> "", token |-> token]

peek_msg_error(P, msg) ==
    [P EXCEPT !.errors = Append(@, make_string_error(msg, P.peek_token))]

current_msg_error(P, msg) ==
    [P EXCEPT !.errors = Append(@, make_string_error(msg, P.current_token))]

peek_error(P, token_kind) ==
    [P EXCEPT !.errors = Append(@, make_error(token_kind, P.peek_token))]

current_error(P, token_kind) ==
    [P EXCEPT !.errors = Append(@, make_error(token_kind, P.current_token))]

current_token_is(P, token_kind) == P.current_token.kind = token_kind

peek_token_is(P, token_kind) == P.peek_token.kind = token_kind

\* mutation of expect_peek: the token is consumed also when it is not the
\* expected one
expect_peek_consuming(P, token_kind) ==
    IF peek_token_is(P, token_kind)
    THEN Ret(next_token(P), TRUE)
    ELSE Ret(next_token(peek_error(P, token_kind)), FALSE)

expect_peek(P, token_kind) ==
    IF peek_token_is(P, token_kind)
    THEN Ret(next_token(P), TRUE)
    ELSE Ret(peek_error(P, token_kind), FALSE)

expect_peek_multi(P, token_kinds, default_token) ==
    IF \E i \in DOMAIN token_kinds : peek_token_is(P, token_kinds[i])
    THEN Ret(next_token(P), TRUE)
    ELSE Ret(peek_error(P, default_token), FALSE)

expect_current(P, token_kind) ==
    IF current_token_is(P, token_kind)
    THEN Ret(P, TRUE)
    ELSE Ret(current_error(P, token_kind), FALSE)

map_precedence(token) ==
    IF token = "Tilde" THEN PRECEDENCE_HIGHEST
    ELSE IF token \in {"Asterisk", "Divide"} THEN PRECEDENCE_PRODUCT
    ELSE IF token \in {"Plus", "Minus"} THEN PRECEDENCE_SUM
    ELSE IF token \in {"Equal", "NotEqual", "LessThan", "LessThanEqual",
                       "GreaterThan", "GreaterThanEqual"}
    THEN PRECEDENCE_COMPARISON
    ELSE IF token = "NOT" THEN PRECEDENCE_NOT
    ELSE IF token = "AND" THEN PRECEDENCE_AND
    ELSE IF token \in {"ALL", "ANY", "BETWEEN", "IN", "LIKE", "OR", "SOME"}
    THEN PRECEDENCE_OTHER_LOGICALS
    ELSE PRECEDENCE_LOWEST

peek_precedence(P) == map_precedence(P.peek_token.kind)

current_precedence(P) == map_precedence(P.current_token.kind)

\* ast::Expression
Literal(token) == [node |-> "Literal", token |-> token]
Unary(operator, right) ==
    [node |-> "Unary", operator |-> operator, right |-> right]
Binary(left, operator, right) ==
    [node |-> "Binary", left |-> left, operator |-> operator,
     right |-> right]
Grouping(expression) == [node |-> "Grouping", expression |-> expression]
Subquery(statement) == [node |-> "Subquery", statement |-> statement]

\* ast::Statement::Select(Box<SelectStatement>)
Select(statement) == [node |-> "Select", select |-> statement]

\* ast::SelectStatement::new()
SelectStatementNew ==
    [distinct |-> FALSE, top |-> NoneOpt, columns |-> <<>>,
     into_table |-> NoneOpt, table |-> <<>>, where_clause |-> NoneOpt,
     group_by |-> <<>>, having |-> NoneOpt, order_by |-> <<>>,
     offset |-> NoneOpt, fetch |-> NoneOpt]

RECURSIVE parse_expression(_, _)
RECURSIVE parse_expression_loop(_, _, _)
RECURSIVE parse_expression_turn(_, _)
RECURSIVE parse_prefix_expression(_)
RECURSIVE parse_infix_expression(_, _)
RECURSIVE parse_grouping(_)
RECURSIVE parse_select_statement(_)

\* the operator tokens parse_infix_expression builds a Binary from
InfixKinds ==
    {"Plus", "Minus", "Asterisk", "Divide", "Equal", "NotEqual", "LessThan",
     "LessThanEqual", "GreaterThan", "GreaterThanEqual",
     "ALL", "AND", "ANY", "BETWEEN", "IN", "LIKE", "OR", "SOME"}

\* mutation of infix_continues: `<=` instead of `<`
infix_continues_on_equal(precedence, P) == precedence <= peek_precedence(P)

\* the loop condition of parse_expression
infix_continues(precedence, P) == precedence < peek_precedence(P)

\* one turn of the `while` loop of parse_expression: next_token, then the
\* infix expression, or the return of None (lines 685-697)
parse_expression_turn(P, left_expression) ==
    Bind(next_token(P), LAMBDA P1 :
      IF is_some(left_expression)
        THEN parse_infix_expression(P1, left_expression[1])
        ELSE Ret(P1, NoneOpt))

parse_expression_loop(P, left_expression, precedence) ==
    IF infix_continues(precedence, P)
    THEN Bind(parse_expression_turn(P, left_expression), LAMBDA i :
           IF is_some(left_expression)
             THEN parse_expression_loop(i.p, i.r, precedence)
             ELSE i)
    ELSE Ret(P, left_expression)

parse_expression(P, precedence) ==
    Bind(parse_prefix_expression(P), LAMBDA left :
      parse_expression_loop(left.p, left.r, precedence))

\* parse_prefix_expression with the operand of a prefix operator parsed at
\* the lowest threshold
parse_prefix_expression_lowest(P) ==
    Bind(P.current_token.kind, LAMBDA kind :
      IF kind \in {"Ident", "Number", "Asterisk"}
        THEN Ret(P, Some(Literal(P.current_token)))
        ELSE IF kind \in {"Plus", "Minus", "NOT"}
        THEN Bind(P.current_token, LAMBDA operator :
                Bind(parse_expression(next_token(P), PRECEDENCE_LOWEST), LAMBDA right :
               IF is_some(right.r)
                 THEN Ret(right.p, Some(Unary(operator, right.r[1])))
                 ELSE Ret(right.p, NoneOpt)))
        ELSE IF kind = "LeftParen"
        THEN IF peek_token_is(P, "SELECT")
             THEN Bind(parse_select_statement(next_token(P)), LAMBDA statement :
                    IF is_some(statement.r)
                      THEN Bind(expect_peek(statement.p, "RightParen"), LAMBDA e :
                             IF ~e.r THEN Ret(e.p, NoneOpt)
                               ELSE Ret(e.p, Some(Subquery(statement.r[1]))))
                      ELSE Ret(statement.p, NoneOpt))
             ELSE parse_grouping(P)
        ELSE Ret(P, NoneOpt))

parse_prefix_expression(P) ==
    Bind(P.current_token.kind, LAMBDA kind :
      IF kind \in {"Ident", "Number", "Asterisk"}
        THEN Ret(P, Some(Literal(P.current_token)))
        ELSE IF kind \in {"Plus", "Minus", "NOT"}
        THEN Bind(P.current_token, LAMBDA operator :
                Bind(current_precedence(P), LAMBDA precedence :
                Bind(parse_expression(next_token(P), precedence), LAMBDA right :
               IF is_some(right.r)
                 THEN Ret(right.p, Some(Unary(operator, right.r[1])))
                 ELSE Ret(right.p, NoneOpt))))
        ELSE IF kind = "LeftParen"
        THEN IF peek_token_is(P, "SELECT")
             THEN Bind(parse_select_statement(next_token(P)), LAMBDA statement :
                    IF is_some(statement.r)
                      THEN Bind(expect_peek(statement.p, "RightParen"), LAMBDA e :
                             IF ~e.r THEN Ret(e.p, NoneOpt)
                               ELSE Ret(e.p, Some(Subquery(statement.r[1]))))
                      ELSE Ret(statement.p, NoneOpt))
             ELSE parse_grouping(P)
        ELSE Ret(P, NoneOpt))

parse_infix_expression(P, left) ==
    IF P.current_token.kind \in InfixKinds
    THEN Bind(P.current_token, LAMBDA operator :
            Bind(current_precedence(P), LAMBDA precedence :
            Bind(parse_expression(next_token(P), precedence), LAMBDA right :
           IF is_some(right.r)
             THEN Ret(right.p, Some(Binary(left, operator, right.r[1])))
             ELSE Ret(right.p, NoneOpt))))
    ELSE Ret(P, NoneOpt)

parse_grouping(P) ==
    Bind(expect_current(P, "LeftParen"), LAMBDA c :
      IF ~c.r THEN Ret(c.p, NoneOpt)
        ELSE Bind(parse_expression(next_token(c.p), PRECEDENCE_LOWEST), LAMBDA e :
               IF is_some(e.r)
                 THEN Bind(expect_peek(e.p, "RightParen"), LAMBDA x :
                        IF ~x.r THEN Ret(x.p, NoneOpt)
                          ELSE Ret(x.p, Some(Grouping(e.r[1]))))
                 ELSE Ret(e.p, NoneOpt)))

\* ast::SelectItem
Wildcard == [item |-> "Wildcard"]
Unnamed(expression) == [item |-> "Unnamed", expression |-> expression]
WithAlias(expression, as_token, alias) ==
    [item |-> "WithAlias", expression |-> expression, as_token |-> as_token,
     alias |-> alias]
WildcardWithAlias(expression, as_token, alias) ==
    [item |-> "WildcardWithAlias", expression |-> expression,
     as_token |-> as_token, alias |-> alias]

is_asterisk_literal(expression) ==
    expression.node = "Literal" /\ expression.token.kind = "Asterisk"

parse_select_item(P, prev_expr, cur_expr, as_token) ==
    IF is_some(prev_expr)
    THEN IF is_some(cur_expr)
         THEN IF cur_expr[1].node # "Literal"
              THEN Ret(current_msg_error(P, "expected ALIAS to be a STRING"),
                       NoneOpt)
              ELSE IF is_asterisk_literal(prev_expr[1])
              THEN Ret(P, Some(WildcardWithAlias(prev_expr[1], as_token,
                                   cur_expr[1].token.literal)))
              ELSE Ret(P, Some(WithAlias(prev_expr[1], as_token,
                                   cur_expr[1].token.literal)))
         ELSE IF is_asterisk_literal(prev_expr[1])
              THEN Ret(P, Some(Wildcard))
              ELSE Ret(P, Some(Unnamed(prev_expr[1])))
    ELSE Ret(P, NoneOpt)

\* one expression of the select list, taken as a column or as the alias of
\* the expression before it (the two arms at lines 401-412 and 421-432)
select_items_expression(st, e, as_token) ==
    Bind(parse_select_item(e.p, st.previous_expr, e.r, as_token), LAMBDA item :
      IF is_some(item.r)
        THEN [st EXCEPT !.p = item.p, !.previous_expr = NoneOpt,
                        !.columns = Append(@, item.r[1]),
                        !.comma_seen = FALSE]
        ELSE [st EXCEPT !.p = item.p, !.previous_expr = e.r,
                        !.comma_seen = FALSE])

\* the condition of the `while` loop of parse_select_items
select_items_continue(P) ==
    ~peek_token_is(P, "FROM") /\ ~peek_token_is(P, "INTO")
    /\ ~peek_token_is(P, "Eof")

\* one turn of the loop; failed is set where the code returns None
parse_select_items_turn(st) ==
    Bind(next_token(st.p), LAMBDA P1 :
      IF P1.current_token.kind = "Comma"
        THEN Bind(parse_select_item(P1, st.previous_expr,
                                           NoneOpt, FALSE), LAMBDA item :
               IF is_some(item.r)
                   THEN [st EXCEPT !.p = item.p, !.comma_seen = TRUE,
                                   !.previous_expr = NoneOpt,
                                   !.columns = Append(@, item.r[1])]
                   ELSE [st EXCEPT !.p = item.p, !.comma_seen = TRUE])
        ELSE IF P1.current_token.kind = "AS"
        THEN IF ~peek_token_is(P1, "Ident")
             THEN [st EXCEPT
                     !.p = peek_msg_error(P1,
                       "expected token to either be a quoted string or identifier"),
                     !.failed = TRUE]
             ELSE Bind(parse_expression(next_token(P1),
                                            PRECEDENCE_LOWEST), LAMBDA e :
                    IF is_some(e.r)
                      THEN select_items_expression(st, e, TRUE)
                      ELSE [st EXCEPT
                              !.p = peek_msg_error(e.p,
                                "expected token to either be a quoted string or identifier"),
                              !.failed = TRUE])
        ELSE Bind(parse_expression(P1, PRECEDENCE_LOWEST), LAMBDA e :
               IF is_some(e.r)
                 THEN select_items_expression(st, e, FALSE)
                 ELSE [st EXCEPT !.p = current_error(e.p, "Ident"),
                                 !.failed = TRUE]))

RECURSIVE parse_select_items_loop(_)
parse_select_items_loop(st) ==
    IF select_items_continue(st.p)
    THEN Bind(parse_select_items_turn(st), LAMBDA next :
           IF next.failed THEN next ELSE parse_select_items_loop(next))
    ELSE st

parse_select_items(P) ==
    IF ~peek_token_is(P, "Ident") /\ ~peek_token_is(P, "Number")
       /\ ~peek_token_is(P, "Asterisk") /\ ~peek_token_is(P, "LeftParen")
    THEN Ret(peek_error(P, "Ident"), NoneOpt)
    ELSE Bind(parse_select_items_loop(
                       [p |-> P, columns |-> <<>>, previous_expr |-> NoneOpt,
                        comma_seen |-> FALSE, failed |-> FALSE]), LAMBDA st :
            Bind(parse_select_item(st.p, st.previous_expr, NoneOpt, FALSE), LAMBDA last :
            Bind(IF is_some(last.r) THEN Append(st.columns, last.r[1])
                        ELSE st.columns, LAMBDA columns :
           IF st.failed THEN Ret(st.p, NoneOpt)
             ELSE IF Len(columns) = 0
             THEN Ret(peek_msg_error(last.p,
                        "expected SELECT items in SELECT expression"),
                      NoneOpt)
             ELSE IF st.comma_seen
             THEN Ret(peek_msg_error(last.p,
                        "expected SELECT item after COMMA in SELECT expression"),
                      NoneOpt)
             ELSE Ret(last.p, Some(columns)))))

row_or_rows(P) == IF P.current_token.kind = "ROW" THEN "Row" ELSE "Rows"

parse_offset(P) ==
    Bind(parse_expression(next_token(P), PRECEDENCE_LOWEST), LAMBDA offset :
      IF is_some(offset.r)
        THEN Bind(expect_peek_multi(offset.p, <<"ROW", "ROWS">>, "ROW"), LAMBDA e :
               IF ~e.r THEN Ret(e.p, NoneOpt)
                 ELSE Ret(e.p, Some([value |-> offset.r[1],
                                     row |-> row_or_rows(e.p)])))
        ELSE Ret(current_msg_error(offset.p,
                     "expected expression after OFFSET keyword"), NoneOpt))

parse_fetch(P) ==
    Bind(expect_peek_multi(P, <<"NEXT", "FIRST">>, "NEXT"), LAMBDA f :
      IF ~f.r THEN Ret(f.p, NoneOpt)
        ELSE
        Bind(IF f.p.current_token.kind = "FIRST" THEN "First"
                     ELSE "Next", LAMBDA first :
           Bind(parse_expression(next_token(f.p), PRECEDENCE_LOWEST), LAMBDA fetch :
          IF is_some(fetch.r)
            THEN Bind(expect_peek_multi(fetch.p, <<"ROW", "ROWS">>, "ROW"), LAMBDA e :
                   IF ~e.r THEN Ret(e.p, NoneOpt)
                     ELSE Bind(expect_peek(e.p, "ONLY"), LAMBDA o :
                            IF ~o.r THEN Ret(o.p, NoneOpt)
                              ELSE Ret(next_token(o.p),
                                       Some([value |-> fetch.r[1],
                                             row |-> row_or_rows(e.p),
                                             first |-> first]))))
            ELSE Ret(peek_msg_error(fetch.p,
                         "expected FETCH expression after FETCH FIRST|NEXT"),
                     NoneOpt))))

\* the condition of the `while` loop of parse_group_by_args
group_by_args_continue(P) ==
    ~peek_token_is(P, "HAVING") /\ ~peek_token_is(P, "SemiColon")
    /\ ~peek_token_is(P, "Eof")

\* one turn of the loop; failed is set where the code returns None
parse_group_by_args_turn(st) ==
    Bind(next_token(st.p), LAMBDA P1 :
      IF P1.current_token.kind = "Comma"
        THEN [st EXCEPT !.p = P1, !.seen_arg = FALSE]
        ELSE Bind(parse_expression(P1, PRECEDENCE_LOWEST), LAMBDA e :
               IF is_some(e.r)
                 THEN [st EXCEPT !.p = e.p, !.seen_arg = TRUE,
                                     !.args = Append(@, e.r[1])]
                 ELSE [st EXCEPT !.p = current_error(e.p, "Ident"),
                                 !.failed = TRUE]))

RECURSIVE parse_group_by_args_loop(_)
parse_group_by_args_loop(st) ==
    IF group_by_args_continue(st.p)
    THEN Bind(parse_group_by_args_turn(st), LAMBDA next :
           IF next.failed THEN next ELSE parse_group_by_args_loop(next))
    ELSE st

parse_group_by_args(P) ==
    Bind(expect_peek(P, "BY"), LAMBDA b :
      IF ~b.r THEN Ret(b.p, NoneOpt)
        ELSE Bind(parse_group_by_args_loop(
                           [p |-> b.p, args |-> <<>>, seen_arg |-> FALSE,
                            failed |-> FALSE]), LAMBDA st :
               IF st.failed THEN Ret(st.p, NoneOpt)
                 ELSE IF Len(st.args) = 0
                 THEN Ret(peek_msg_error(st.p,
                            "expected GROUP BY expression after GROUP BY"),
                          NoneOpt)
                 ELSE IF ~st.seen_arg
                 THEN Ret(peek_msg_error(st.p,
                            "expected GROUP BY expression after COMMA"),
                          NoneOpt)
                 ELSE Ret(st.p, Some(st.args))))

\* the condition of the `while` loop of parse_order_by_args
order_by_args_continue(P) ==
    ~peek_token_is(P, "OFFSET") /\ ~peek_token_is(P, "SemiColon")
    /\ ~peek_token_is(P, "Eof")

\* one turn of the loop; failed is set where the code returns None
parse_order_by_args_turn(st) ==
    Bind(next_token(st.p), LAMBDA P1 :
      IF P1.current_token.kind = "Comma"
        THEN [st EXCEPT !.p = P1, !.seen_arg = FALSE]
        ELSE Bind(parse_expression(P1, PRECEDENCE_LOWEST), LAMBDA e :
                Bind(IF peek_token_is(e.p, "ASC") THEN Some(TRUE)
                           ELSE IF peek_token_is(e.p, "DESC")
                           THEN Some(FALSE)
                           ELSE NoneOpt, LAMBDA is_asc :
                Bind(IF is_some(is_asc) THEN next_token(e.p) ELSE e.p, LAMBDA P2 :
               IF is_some(e.r)
                 THEN [st EXCEPT !.p = P2, !.seen_arg = TRUE,
                                     !.args = Append(@,
                                         [column |-> e.r[1],
                                          asc |-> is_asc])]
                 ELSE [st EXCEPT !.p = current_error(e.p, "Ident"),
                                 !.failed = TRUE]))))

RECURSIVE parse_order_by_args_loop(_)
parse_order_by_args_loop(st) ==
    IF order_by_args_continue(st.p)
    THEN Bind(parse_order_by_args_turn(st), LAMBDA next :
           IF next.failed THEN next ELSE parse_order_by_args_loop(next))
    ELSE st

parse_order_by_args(P) ==
    Bind(expect_peek(P, "BY"), LAMBDA b :
      IF ~b.r THEN Ret(b.p, NoneOpt)
        ELSE Bind(parse_order_by_args_loop(
                           [p |-> b.p, args |-> <<>>, seen_arg |-> FALSE,
                            failed |-> FALSE]), LAMBDA st :
               IF st.failed THEN Ret(st.p, NoneOpt)
                 ELSE IF Len(st.args) = 0
                 THEN Ret(peek_msg_error(st.p,
                            "expected ORDERED BY expression after ORDERED BY"),
                          NoneOpt)
                 ELSE IF ~st.seen_arg
                 THEN Ret(peek_msg_error(st.p,
                            "expected ORDERED BY expression after COMMA"),
                          NoneOpt)
                 ELSE Ret(st.p, Some(st.args))))

\* parse_select_statement, clause by clause.  s.p is the parser, s.statement
\* the SelectStatement under construction, s.failed is set where the source
\* executes `return None`; every later clause is then skipped.
select_fail(s, P) == [s EXCEPT !.p = P, !.failed = TRUE]

select_distinct(s) ==
    IF peek_token_is(s.p, "DISTINCT")
    THEN [s EXCEPT !.p = next_token(s.p), !.statement.distinct = TRUE]
    ELSE s

select_all(s) ==
    IF s.failed \/ ~peek_token_is(s.p, "ALL") THEN s
    ELSE [s EXCEPT !.p = next_token(s.p)]

select_top(s) ==
    IF s.failed \/ ~peek_token_is(s.p, "TOP") THEN s
    ELSE
    Bind(parse_expression(next_token(next_token(s.p)), PRECEDENCE_LOWEST), LAMBDA e :
      IF ~is_some(e.r)
        THEN select_fail(s, current_msg_error(e.p,
                 "expected expression after TOP keyword"))
        ELSE
        Bind(peek_token_is(e.p, "PERCENT"), LAMBDA is_percent :
           Bind(IF is_percent THEN next_token(e.p) ELSE e.p, LAMBDA P1 :
           Bind(peek_token_is(P1, "WITH"), LAMBDA has_with :
           Bind(expect_peek(next_token(P1), "TIES"), LAMBDA t :
          IF has_with /\ ~t.r THEN select_fail(s, t.p)
            ELSE [s EXCEPT !.p = IF has_with THEN t.p ELSE P1,
                           !.statement.top =
                               Some([with_ties |-> has_with,
                                     percent |-> is_percent,
                                     quantity |-> e.r[1]])])))))

\* mutation of select_columns: no `return None` when parse_select_items
\* gave no columns
select_columns_unchecked(s) ==
    IF s.failed THEN s
    ELSE Bind(parse_select_items(s.p), LAMBDA c :
           [s EXCEPT !.p = c.p,
                     !.statement.columns =
                         IF is_some(c.r) THEN c.r[1] ELSE <<>>])

select_columns(s) ==
    IF s.failed THEN s
    ELSE Bind(parse_select_items(s.p), LAMBDA c :
           IF is_some(c.r)
             THEN [s EXCEPT !.p = c.p, !.statement.columns = c.r[1]]
             ELSE select_fail(s, c.p))

select_into(s) ==
    IF s.failed \/ ~peek_token_is(s.p, "INTO") THEN s
    ELSE
    Bind(expect_peek(next_token(s.p), "Ident"), LAMBDA i :
      IF ~i.r THEN select_fail(s, i.p)
        ELSE
        Bind(Literal(i.p.current_token), LAMBDA into_table :
           Bind(peek_token_is(i.p, "ON"), LAMBDA has_on :
           Bind(expect_peek(next_token(i.p), "Ident"), LAMBDA g :
          IF has_on /\ ~g.r THEN select_fail(s, g.p)
            ELSE [s EXCEPT !.p = IF has_on THEN g.p ELSE i.p,
                           !.statement.into_table =
                               Some([table |-> into_table,
                                     file_group |->
                                         IF has_on
                                         THEN Some(Literal(g.p.current_token))
                                         ELSE NoneOpt])]))))

\* the closure counted at lines 170-183: is the column a bare number or
\* identifier literal
is_literal_column(column) ==
    /\ column.item \in {"Unnamed", "WithAlias"}
    /\ column.expression.node = "Literal"
    /\ column.expression.token.kind \in {"Number", "Ident"}

number_of_non_literal_tokens(columns) ==
    Cardinality({i \in DOMAIN columns : ~is_literal_column(columns[i])})

\* `expect_peek(Kind::Ident)` followed by the push of the table name
select_table_name(s, P) ==
    Bind(expect_peek(P, "Ident"), LAMBDA t :
      IF ~t.r THEN select_fail(s, t.p)
        ELSE [s EXCEPT !.p = t.p,
                       !.statement.table =
                           Append(@, Literal(t.p.current_token))])

select_from(s) ==
    IF s.failed THEN s
    ELSE IF number_of_non_literal_tokens(s.statement.columns) > 0
    THEN Bind(expect_peek(s.p, "FROM"), LAMBDA f :
           IF ~f.r THEN select_fail(s, f.p)
             ELSE select_table_name(s, f.p))
    ELSE IF peek_token_is(s.p, "FROM")
    THEN select_table_name(s, next_token(s.p))
    ELSE s

\* the WHERE and HAVING clauses are the same code up to the message
select_condition(s, msg) ==
    Bind(parse_expression(next_token(next_token(s.p)), PRECEDENCE_LOWEST), LAMBDA e :
       Bind(IF is_some(e.r) /\ e.r[1].node # "Binary"
              THEN current_msg_error(e.p, msg)
              ELSE e.p, LAMBDA P1 :
      IF ~is_some(e.r)
        THEN [p |-> current_msg_error(P1, msg), r |-> NoneOpt]
        ELSE [p |-> P1, r |-> e.r]))

select_where(s) ==
    IF s.failed \/ ~peek_token_is(s.p, "WHERE") THEN s
    ELSE Bind(select_condition(s,
                      "expected expression after WHERE keyword"), LAMBDA c :
           IF ~is_some(c.r) THEN select_fail(s, c.p)
             ELSE [s EXCEPT !.p = c.p, !.statement.where_clause = c.r])

select_group_by(s) ==
    IF s.failed \/ ~peek_token_is(s.p, "GROUP") THEN s
    ELSE Bind(parse_group_by_args(next_token(s.p)), LAMBDA g :
           IF is_some(g.r)
             THEN [s EXCEPT !.p = g.p, !.statement.group_by = g.r[1]]
             ELSE select_fail(s, g.p))

select_having(s) ==
    IF s.failed \/ ~peek_token_is(s.p, "HAVING") THEN s
    ELSE Bind(select_condition(s,
                      "expected expression after HAVING keyword"), LAMBDA c :
           IF ~is_some(c.r) THEN select_fail(s, c.p)
             ELSE [s EXCEPT !.p = c.p, !.statement.having = c.r])

select_fetch(s) ==
    IF s.failed \/ ~peek_token_is(s.p, "FETCH") THEN s
    ELSE Bind(parse_fetch(next_token(s.p)), LAMBDA f :
           IF ~is_some(f.r) THEN select_fail(s, f.p)
             ELSE [s EXCEPT !.p = next_token(f.p), !.statement.fetch = f.r])

select_offset(s) ==
    IF s.failed \/ ~peek_token_is(s.p, "OFFSET") THEN s
    ELSE Bind(parse_offset(next_token(s.p)), LAMBDA o :
           IF ~is_some(o.r) THEN select_fail(s, o.p)
             ELSE select_fetch([s EXCEPT !.p = o.p,
                                         !.statement.offset = o.r]))

\* mutation of select_order_by: OFFSET is looked for also when there is no
\* ORDER BY
select_order_by_or_offset(s) ==
    IF s.failed THEN s
    ELSE IF ~peek_token_is(s.p, "ORDER") THEN select_offset(s)
    ELSE Bind(parse_order_by_args(next_token(s.p)), LAMBDA a :
           IF is_some(a.r)
             THEN select_offset([s EXCEPT !.p = a.p,
                                          !.statement.order_by = a.r[1]])
             ELSE select_fail(s, a.p))

select_order_by(s) ==
    IF s.failed \/ ~peek_token_is(s.p, "ORDER") THEN s
    ELSE Bind(parse_order_by_args(next_token(s.p)), LAMBDA a :
           IF is_some(a.r)
             THEN select_offset([s EXCEPT !.p = a.p,
                                          !.statement.order_by = a.r[1]])
             ELSE select_fail(s, a.p))

parse_select_statement(P) ==
    Bind(select_distinct([p |-> P, statement |-> SelectStatementNew,
                          failed |-> FALSE]), LAMBDA distinct :
    Bind(select_all(distinct), LAMBDA all :
    Bind(select_top(all), LAMBDA top :
    Bind(select_columns(top), LAMBDA columns :
    Bind(select_into(columns), LAMBDA into :
    Bind(select_from(into), LAMBDA from :
    Bind(select_where(from), LAMBDA where :
    Bind(select_group_by(where), LAMBDA group_by :
    Bind(select_having(group_by), LAMBDA having :
    Bind(select_order_by(having), LAMBDA s :
      IF s.failed THEN Ret(s.p, NoneOpt)
        ELSE Ret(s.p, Some(Select(s.statement)))))))))))))

parse_statement(P) ==
    IF P.current_token.kind = "SELECT"
    THEN parse_select_statement(P)
    ELSE Ret(P, NoneOpt)

----------------------------------------------------------------------------
(* Token streams the parser is run on *)

\* most binary operators in a WHERE chain
MaxOps == 2
\* most statements in one input
MaxStmts == 2
\* longest unconstrained token stream
MaxRaw == 3

Ident(name) == Tok("Ident", name)
Number(n) == Tok("Number", n)
Kw(spelling) == Tok(spelling, spelling)
Punct(kind) == Tok(kind, kind)

\* the binary operators of the expression grammar; Mod is the `%` token
ChainOps == InfixKinds \cup {"Mod"}

ChainOperands == <<"a", "b", "c", "d", "e">>

\* a op1 b op2 c ...: operands alternate with the operators of ops
Chain(ops) ==
    [i \in 1..(2 * Len(ops) + 1) |->
        IF i % 2 = 1 THEN Ident(ChainOperands[(i + 1) \div 2])
        ELSE Punct(ops[i \div 2])]

SelectFrom == <<Kw("SELECT"), Ident("x"), Kw("FROM"), Ident("t")>>

\* SELECT x FROM t WHERE a op1 b op2 c ...
WhereInput(ops) == SelectFrom \o <<Kw("WHERE")>> \o Chain(ops)

OpSeqs(n) == UNION {[1..k -> ChainOps] : k \in 0..n}

WhereInputs == {WhereInput(ops) : ops \in OpSeqs(MaxOps)}

\* the clause a valid statement ends with
Endings == {"table", "where", "group_by", "order_by", "offset", "fetch"}

OrderBy == <<Kw("ORDER"), Kw("BY"), Ident("a")>>
Offset == <<Kw("OFFSET"), Number("1"), Kw("ROWS")>>
Fetch == <<Kw("FETCH"), Kw("NEXT"), Number("2"), Kw("ROWS"), Kw("ONLY")>>

StatementTokens(ending) ==
    SelectFrom \o
    (IF ending = "table" THEN <<>>
     ELSE IF ending = "where"
     THEN <<Kw("WHERE"), Ident("a"), Punct("Equal"), Number("1")>>
     ELSE IF ending = "group_by" THEN <<Kw("GROUP"), Kw("BY"), Ident("a")>>
     ELSE IF ending = "order_by" THEN OrderBy
     ELSE IF ending = "offset" THEN OrderBy \o Offset
     ELSE OrderBy \o Offset \o Fetch)

\* the statement each ending is, as the tests of lib.rs write it down
StatementExpected(ending) ==
    Select(
      [SelectStatementNew EXCEPT
        !.columns = <<Unnamed(Literal(Ident("x")))>>,
        !.table = <<Literal(Ident("t"))>>,
        !.where_clause =
            IF ending = "where"
            THEN Some(Binary(Literal(Ident("a")), Punct("Equal"),
                             Literal(Number("1"))))
            ELSE NoneOpt,
        !.group_by = IF ending = "group_by" THEN <<Literal(Ident("a"))>>
                     ELSE <<>>,
        !.order_by = IF ending \in {"order_by", "offset", "fetch"}
                     THEN <<[column |-> Literal(Ident("a")),
                             asc |-> NoneOpt]>>
                     ELSE <<>>,
        !.offset = IF ending \in {"offset", "fetch"}
                   THEN Some([value |-> Literal(Number("1")),
                              row |-> "Rows"])
                   ELSE NoneOpt,
        !.fetch = IF ending = "fetch"
                  THEN Some([value |-> Literal(Number("2")), row |-> "Rows",
                             first |-> "Next"])
                  ELSE NoneOpt])

\* statements written one after another, separated by `;`
RECURSIVE QueryTokens(_)
QueryTokens(endings) ==
    IF Len(endings) = 0 THEN <<>>
    ELSE IF Len(endings) = 1 THEN StatementTokens(endings[1])
    ELSE StatementTokens(endings[1]) \o <<Punct("SemiColon")>>
         \o QueryTokens(Tail(endings))

EndingSeqs == UNION {[1..k -> Endings] : k \in 1..MaxStmts}

QueryInputs ==
    {QueryTokens(e) : e \in EndingSeqs}
    \cup {QueryTokens(e) \o <<Punct("SemiColon")>> : e \in EndingSeqs}

\* short streams of any shape
RawTokens ==
    {Kw("SELECT"), Kw("FROM"), Kw("WHERE"), Kw("AS"), Ident("a"),
     Number("1"), Punct("Asterisk"), Punct("Comma"), Punct("LeftParen"),
     Punct("RightParen"), Punct("SemiColon"), Punct("Minus")}

RawInputs == UNION {[1..k -> RawTokens] : k \in 0..MaxRaw}

----------------------------------------------------------------------------
(* Parser state machine: Parser::new, then parse() one statement at a time *)

\* one turn of the `while` loop of parse() with the next_token left out
parse_turn_in_place(P) == parse_statement(P)

\* one turn of the `while` loop of parse(): parse_statement, then next_token;
\* r is what the turn pushes to query.statements
parse_turn(P) ==
    Bind(parse_statement(P), LAMBDA s : Ret(next_token(s.p), s.r))

ParserInit ==
    /\ tokens \in WhereInputs \cup QueryInputs \cup RawInputs
    /\ parser = ParserNew
    /\ query = <<>>
    /\ pc = "parsing"
    /\ kw_impl = "window"
    /\ KeywordIdle
    /\ LexerIdle
    /\ CallIdle

\* one turn of the `while` loop of parse(): parse_statement, then next_token
ParseStatement ==
    /\ pc = "parsing"
    /\ parser.current_token.kind # "Eof"
    /\ \E s \in {parse_turn(parser)} :
          /\ query' = query \o s.r
          /\ parser' = s.p
    /\ UNCHANGED <<tokens, pc, lexer_vars, keyword_vars, call_vars>>

\* the loop ends on Eof and parse() returns the query
ParseReturn ==
    /\ pc = "parsing"
    /\ parser.current_token.kind = "Eof"
    /\ pc' = "done"
    /\ UNCHANGED <<tokens, parser, query, lexer_vars, keyword_vars,
                   call_vars>>

ParserNext == ParseStatement \/ ParseReturn

ParserSpec == ParserInit /\ [][ParserNext]_vars

----------------------------------------------------------------------------
(* SELECT statements built from optional clauses, subqueries, select lists *)

\* most clauses written after the table name in any order
MaxClauses == 2
\* most tokens of a select list
MaxItems == 3

Clauses == {"where", "group_by", "having", "order_by", "offset", "fetch"}

\* the order the grammar writes the clauses in
ClauseOrder ==
    <<"where", "group_by", "having", "order_by", "offset", "fetch">>

Condition == <<Ident("a"), Punct("Equal"), Number("1")>>

ClauseTokens(c) ==
    IF c = "where" THEN <<Kw("WHERE")>> \o Condition
    ELSE IF c = "group_by" THEN <<Kw("GROUP"), Kw("BY"), Ident("a")>>
    ELSE IF c = "having" THEN <<Kw("HAVING")>> \o Condition
    ELSE IF c = "order_by" THEN OrderBy
    ELSE IF c = "offset" THEN Offset
    ELSE Fetch

\* SELECT x FROM t followed by the clauses of cs, a sequence of clause names
RECURSIVE ClauseSeqTokens(_)
ClauseSeqTokens(cs) ==
    IF cs = <<>> THEN SelectFrom
    ELSE ClauseSeqTokens(SubSeq(cs, 1, Len(cs) - 1))
         \o ClauseTokens(cs[Len(cs)])

\* the subsets of clauses the grammar allows: OFFSET after ORDER BY only,
\* FETCH after OFFSET only
ValidClauseSets ==
    {S \in SUBSET Clauses :
        /\ "fetch" \in S => "offset" \in S
        /\ "offset" \in S => "order_by" \in S}

InClauseOrder(S) ==
    LET IsIn(c) == c \in S
    IN  SelectSeq(ClauseOrder, IsIn)

ValidStatement(S) == ClauseSeqTokens(InClauseOrder(S))

ConditionExpected ==
    Binary(Literal(Ident("a")), Punct("Equal"), Literal(Number("1")))

\* the statement with exactly the clauses of S, as the tests of lib.rs
\* write statements down
ClauseExpected(S) ==
    Select(
      [SelectStatementNew EXCEPT
        !.columns = <<Unnamed(Literal(Ident("x")))>>,
        !.table = <<Literal(Ident("t"))>>,
        !.where_clause = IF "where" \in S THEN Some(ConditionExpected)
                         ELSE NoneOpt,
        !.group_by = IF "group_by" \in S THEN <<Literal(Ident("a"))>>
                     ELSE <<>>,
        !.having = IF "having" \in S THEN Some(ConditionExpected)
                   ELSE NoneOpt,
        !.order_by = IF "order_by" \in S
                     THEN <<[column |-> Literal(Ident("a")),
                             asc |-> NoneOpt]>>
                     ELSE <<>>,
        !.offset = IF "offset" \in S
                   THEN Some([value |-> Literal(Number("1")),
                              row |-> "Rows"])
                   ELSE NoneOpt,
        !.fetch = IF "fetch" \in S
                  THEN Some([value |-> Literal(Number("2")), row |-> "Rows",
                             first |-> "Next"])
                  ELSE NoneOpt])

ValidStatements == {ValidStatement(S) : S \in ValidClauseSets}

\* clauses in any order and number, allowed by the grammar or not
ClauseInputs ==
    {ClauseSeqTokens(cs) :
        cs \in UNION {[1..k -> Clauses] : k \in 0..MaxClauses}}

\* a parenthesized SELECT as a select item and as the right operand of the
\* WHERE condition, and the same without its closing parenthesis
SubqueryColumn(inner) ==
    <<Kw("SELECT"), Punct("LeftParen")>> \o inner
    \o <<Punct("RightParen"), Kw("FROM"), Ident("t")>>

SubqueryWhere(inner) ==
    SelectFrom \o <<Kw("WHERE"), Ident("a"), Punct("Equal"),
                    Punct("LeftParen")>>
    \o inner \o <<Punct("RightParen")>>

SubqueryUnclosed(inner) ==
    SelectFrom \o <<Kw("WHERE"), Ident("a"), Punct("Equal"),
                    Punct("LeftParen")>>
    \o inner

SubqueryInputs ==
    {SubqueryColumn(i) : i \in ValidStatements}
    \cup {SubqueryWhere(i) : i \in ValidStatements}
    \cup {SubqueryUnclosed(i) : i \in ValidStatements}

\* select lists of any shape between SELECT and FROM t
ItemTokens == {Ident("a"), Punct("Asterisk"), Punct("Comma"), Kw("AS")}

SelectListInputs ==
    {<<Kw("SELECT")>> \o items \o <<Kw("FROM"), Ident("t")>> :
        items \in UNION {[1..k -> ItemTokens] : k \in 0..MaxItems}}

\* statements with a required list left empty or FROM misspelled
SelectFromUsers == <<Kw("SELECT"), Kw("FROM"), Ident("users")>>
EmptyGroupBy == SelectFrom \o <<Kw("GROUP"), Kw("BY")>>
EmptyOrderBy == SelectFrom \o <<Kw("ORDER"), Kw("BY")>>
SelectFormUsers ==
    <<Kw("SELECT"), Punct("Asterisk"), Ident("FORM"), Ident("users")>>

MalformedInputs ==
    {SelectFromUsers, EmptyGroupBy, EmptyOrderBy, SelectFormUsers,
     <<Kw("SELECT"), Ident("x"), Ident("FORM"), Ident("users")>>,
     <<Kw("SELECT"), Ident("x"), Punct("Plus"), Number("1"), Ident("FORM"),
       Ident("users")>>}

SelectInit ==
    /\ tokens \in ValidStatements \cup ClauseInputs \cup SubqueryInputs
                  \cup SelectListInputs \cup MalformedInputs
    /\ parser = ParserNew
    /\ query = <<>>
    /\ pc = "parsing"
    /\ kw_impl = "window"
    /\ KeywordIdle
    /\ LexerIdle
    /\ CallIdle

SelectSpec == SelectInit /\ [][ParserNext]_vars

----------------------------------------------------------------------------
(* One call of expect_peek at any position of a token stream *)

\* the values of an Option<T> field and of a slice of at most n elements
Options(S) == {NoneOpt} \cup {Some(v) : v \in S}

SeqsUpTo(S, n) == UNION {[1..k -> S] : k \in 0..n}

ExpectTokens == {Kw("FROM"), Ident("a"), Punct("RightParen")}

ExpectedKinds == {"FROM", "Ident", "RightParen", "Eof"}

\* the parser after n calls of next_token
RECURSIVE advanced(_, _)
advanced(P, n) == IF n = 0 THEN P ELSE advanced(next_token(P), n - 1)

ExpectInit ==
    /\ tokens \in SeqsUpTo(ExpectTokens, MaxRaw)
    /\ \E n \in 0..Len(tokens) : parser = advanced(ParserNew, n)
    /\ query = <<>>
    /\ pc = "idle"
    /\ \E kind \in ExpectedKinds :
          call = [fn |-> "expect_peek", token_kind |-> kind]
    /\ result = <<>>
    /\ first_run = <<>>
    /\ formatter = <<>>
    /\ kw_impl = "window"
    /\ KeywordIdle
    /\ LexerIdle

ExpectPeek ==
    /\ call # <<>> /\ call.fn = "expect_peek"
    /\ result = <<>>
    /\ parser' = expect_peek(parser, call.token_kind).p
    /\ result' = <<expect_peek(parser, call.token_kind).r>>
    /\ UNCHANGED <<tokens, query, pc, call, first_run, formatter, lexer_vars,
                   keyword_vars>>

ExpectSpec == ExpectInit /\ [][ExpectPeek]_vars

----------------------------------------------------------------------------
(* ParseError: parser/src/error.rs *)

\* longest text location() is called with
MaxSource == 4

SourceAlphabet == {"a", " ", "\n"}

\* mutation of location_step: the column is not reset at a newline
location_step_keep_column(at, c) ==
    IF c = "\n" THEN [line |-> at.line + 1, column |-> at.column + 1]
    ELSE [line |-> at.line, column |-> at.column + 1]

\* the body of the `for` loop of location below its `break`
location_step(at, c) ==
    IF c = "\n" THEN [line |-> at.line + 1, column |-> 1]
    ELSE [line |-> at.line, column |-> at.column + 1]

\* for (i, c) in input.char_indices(): i is the byte offset of c
RECURSIVE location_loop(_, _, _, _)
location_loop(text, start, i, at) ==
    IF i >= Len(text) \/ i = start THEN at
    ELSE location_loop(text, start, i + 1, location_step(at, text[i + 1]))

\* format!("line: {} col: {}", line_number, column_number)
location(span, text) ==
    Bind(location_loop(text, span.start, 0, [line |-> 1, column |-> 1]),
         LAMBDA at : <<"line: ", at.line, " col: ", at.column>>)

LocationInit ==
    /\ \E text \in TextsOver(SourceAlphabet, MaxSource) :
         \E start \in 0..Len(text) :
            call = [fn |-> "location", span |-> [start |-> start],
                    input |-> text]
    /\ result = <<>>
    /\ first_run = <<>>
    /\ formatter = <<>>
    /\ kw_impl = "window"
    /\ KeywordIdle
    /\ LexerIdle
    /\ ParserIdle

Locate ==
    /\ call # <<>> /\ call.fn = "location"
    /\ result = <<>>
    /\ result' = <<location(call.span, call.input)>>
    /\ UNCHANGED <<call, first_run, formatter, lexer_vars, keyword_vars,
                   parser_vars>>

LocationSpec == LocationInit /\ [][Locate]_vars

\* how many expected alternatives an UnexpectedToken error carries
MaxExpected == 2

\* fmt::Result of a Display implementation and what it wrote before returning
Written(text) == [ok |-> TRUE, text |-> text]
WrittenErr(text) == [ok |-> FALSE, text |-> text]

\* ALL_KEYWORDS_INDEX.binary_search(self): the table is in declaration order,
\* which is the order of the derived Ord, so the keyword is found at its place
keyword_index(k) ==
    IF \E i \in DOMAIN ALL_KEYWORDS_INDEX : ALL_KEYWORDS_INDEX[i] = k
    THEN CHOOSE i \in DOMAIN ALL_KEYWORDS_INDEX : ALL_KEYWORDS_INDEX[i] = k
    ELSE 0

\* impl Display for Keyword: writes the spelling, then returns Err(fmt::Error)
keyword_fmt(k) ==
    Bind(keyword_index(k), LAMBDA index :
      IF index # 0 THEN WrittenErr(<<ALL_KEYWORDS[index]>>)
      ELSE WrittenErr(<<>>))

\* the token kinds without a payload and what Display writes for them
TokenSymbols ==
    [Comma |-> ",", LeftParen |-> "(", RightParen |-> ")", Equal |-> "=",
     BangEqual |-> "!=", LessThanGreaterThan |-> "<>", LessThan |-> "<",
     LessThanEqual |-> "<=", GreaterThan |-> ">", GreaterThanEqual |-> ">=",
     Plus |-> "+", Minus |-> "-", ForwardSlash |-> "/", Asterisk |-> "*",
     Percent |-> "%", Period |-> ".", SemiColon |-> ";", Eof |-> "EOF"]

PayloadKinds == {"Identifier", "QuotedIdentifier", "StringLiteral",
                 "NumberLiteral", "LocalVariable", "Comment"}

\* impl Display for Token
token_fmt(token) ==
    IF token.kind = "Comment" THEN Written(<<"-- ", token.payload>>)
    ELSE IF token.kind \in PayloadKinds THEN Written(<<token.payload>>)
    ELSE IF token.kind = "Keyword"
    THEN Bind(keyword_fmt(token.payload), LAMBDA w :
           IF w.ok THEN Written(w.text) ELSE WrittenErr(w.text))
    ELSE Written(<<TokenSymbols[token.kind]>>)

\* what a call returns: a String, or the panic of format! / to_string when
\* a Display implementation returned an error
Returned(text) == [tag |-> "Ok", text |-> text]
FormatPanic == [tag |-> "Panic"]

\* format!(prefix {}, token) and token.to_string()
format_token(prefix, token) ==
    Bind(token_fmt(token), LAMBDA w :
      IF w.ok THEN Returned(prefix \o w.text) ELSE FormatPanic)

FoundCategory ==
    [Identifier |-> "an identifier", QuotedIdentifier |-> "a quoted identifier",
     StringLiteral |-> "a string", NumberLiteral |-> "a number",
     LocalVariable |-> "a local variable", Comment |-> "a comment",
     Eof |-> "end of file"]

\* `let found = match token { ... }`
details_found(token) ==
    IF token.kind \in DOMAIN FoundCategory
    THEN Returned(<<FoundCategory[token.kind]>>)
    ELSE IF token.kind \in DOMAIN TokenSymbols THEN format_token(<<>>, token)
    ELSE format_token(<<"the keyword ">>, token)

\* expected.iter().map(|s| format!("- {} ", s))
RECURSIVE details_expected(_)
details_expected(expected) ==
    IF expected = <<>> THEN <<>>
    ELSE <<"- ", Head(expected), " ">> \o details_expected(Tail(expected))

\* the message of every error kind that has a fixed one
DetailsMessage ==
    [UnrecognizedEof |-> "I was not expecting an end of file",
     ExpectedKeyword |-> "I was exepecting a keyword",
     ExpectedFunctionName |-> "I expected a function name",
     EmptySelectColumns |-> "I expected columns to select from table",
     EmptyGroupByClause |-> "I expected a group by clause",
     EmptyPartitionByClause |-> "I expected a partition by clause",
     ExpectedComparisonOperator |-> "I expected a comparison operator",
     ExpectedArithmeticOperator |-> "I expected an arithmetic operator",
     ExpectedUnaryOperator |-> "I expected a unary operator",
     EmptyOrderByArgs |-> "I expected columns to order by",
     ExpectedDataType |-> "I expected a data type",
     ExpectedDataTypeSize |-> "I expected a float precision",
     ExpectedSubqueryOrExpressionList |->
         "I expected subquery or expression list",
     MissingRowsOrRangeInWindowFrameClause |->
         "I expected rows or range in window frame clause",
     MissingAliasAfterAsKeyword |-> "I expected an alias after as keyword",
     ExpectedUnboundedPrecedingCurrentRowOrNumberPreceding |->
         "I expected unbounded preceding current row or number preceding",
     ExpectedUnboundedFollowingCurrentRowOrNumberFollowing |->
         "I expected unbounded following current row or number following",
     ExpectedLocalVariable |-> "I expected a local variable",
     ExpectedObjectToInsertTo |-> "I expected an object to insert into",
     InvalidOrUnimplementedStatement |->
         "I was not expecting an invalid or a statement that is not implemented yet"]

\* ParseError::details
details(error) ==
    IF error.kind = "UnexpectedToken"
    THEN Bind(details_found(error.token), LAMBDA found :
           IF found.tag = "Panic" THEN FormatPanic
           ELSE Returned(<<"I was not expecting this. Found ">> \o found.text
                         \o <<", expected one of: ">>
                         \o details_expected(error.expected)))
    ELSE Returned(<<DetailsMessage[error.kind]>>)

\* the tokens an UnexpectedToken error is built with
FoundTokens ==
    {[kind |-> k, payload |-> "a"] : k \in PayloadKinds}
    \cup {[kind |-> k, payload |-> ""] : k \in DOMAIN TokenSymbols}
    \cup {[kind |-> "Keyword", payload |-> k] :
            k \in Range(ALL_KEYWORDS_INDEX)}

ExpectedLists ==
    UNION {[1..n -> {"FROM", "an identifier"}] : n \in 0..MaxExpected}

ParseErrors ==
    {[kind |-> k] : k \in DOMAIN DetailsMessage}
    \cup {[kind |-> "UnexpectedToken", token |-> t, expected |-> e] :
            t \in FoundTokens, e \in ExpectedLists}

DetailsInit ==
    /\ \E error \in ParseErrors : call = [fn |-> "details", error |-> error]
    /\ result = <<>>
    /\ first_run = <<>>
    /\ formatter = <<>>
    /\ kw_impl = "window"
    /\ KeywordIdle
    /\ LexerIdle
    /\ ParserIdle

Detail ==
    /\ call # <<>> /\ call.fn = "details"
    /\ result = <<>>
    /\ result' = <<details(call.error)>>
    /\ UNCHANGED <<call, first_run, formatter, lexer_vars, keyword_vars,
                   parser_vars>>

DetailsSpec == DetailsInit /\ [][Detail]_vars

----------------------------------------------------------------------------
(* Formatter: sql_formatter/src/formatter.rs *)

\* longest list (columns, joins, group by, order by) of a visited statement
MaxList == 2

\* Formatter::new; `visits` lists the fields visit_select_query has handed
\* to a visit method, `aborted` is set by unreachable!, todo!, unimplemented!
FormatterNew(settings) ==
    [settings |-> settings, formatted_query |-> <<>>, visits |-> <<>>,
     aborted |-> FALSE]

push_str(F, text) ==
    IF F.aborted THEN F
    ELSE [F EXCEPT !.formatted_query =
                       Append(@, [text |-> text, case |-> "AsIs"])]

\* the keyword in the case of settings.keyword_case
print_keyword(F, keyword) ==
    IF F.aborted THEN F
    ELSE [F EXCEPT !.formatted_query =
                       Append(@, [text |-> keyword,
                                  case |-> F.settings.keyword_case])]

abort(F) == [F EXCEPT !.aborted = TRUE]

visited(F, field) ==
    IF F.aborted THEN F ELSE [F EXCEPT !.visits = Append(@, field)]

RECURSIVE print_indent_loop(_, _)
print_indent_loop(F, n) ==
    IF n = 0 THEN F
    ELSE print_indent_loop(
             push_str(F, IF F.settings.use_tab THEN "\t" ELSE " "), n - 1)

print_indent(F) == print_indent_loop(F, F.settings.indent_width)

print_select_column_comma(F) ==
    IF F.settings.indent_comma_lists = <<"TrailingComma">>
    THEN print_indent(push_str(F, ",\n"))
    ELSE IF F.settings.indent_comma_lists = <<"SpaceAfterComma">>
    THEN push_str(print_indent(push_str(F, "\n")), ", ")
    ELSE push_str(print_indent(push_str(F, "\n")), ",")

\* Visitor::visit_expression on an expression without sub-expressions
visit_expression(F, expression) == push_str(F, expression)

visit_select_top_argument(F, top) ==
    IF ~is_some(top) THEN F
    ELSE Bind(push_str(visit_expression(print_keyword(F, "TOP "),
                                        top[1].quantity), " "),
              LAMBDA G :
                Bind(IF top[1].percent THEN print_keyword(G, "PERCENT ")
                     ELSE G,
                     LAMBDA H : IF top[1].with_ties
                                THEN print_keyword(H, "WITH TIES ") ELSE H))

visit_select_item(F, item) ==
    IF item.item = "Unnamed" THEN visit_expression(F, item.expression)
    ELSE IF item.item \in {"WithAlias", "WildcardWithAlias"}
    THEN Bind(visit_expression(F, item.expression), LAMBDA G :
           push_str(IF item.as_token THEN print_keyword(G, " AS ") ELSE G,
                    item.alias))
    ELSE push_str(F, "*")

RECURSIVE visit_select_columns_loop(_, _, _)
visit_select_columns_loop(F, columns, i) ==
    IF i >= Len(columns) THEN F
    ELSE visit_select_columns_loop(
             visit_select_item(
                 IF i > 0 THEN print_select_column_comma(F) ELSE F,
                 columns[i + 1]),
             columns, i + 1)

visit_select_columns(F, columns) ==
    push_str(visit_select_columns_loop(F, columns, 0), "\n")

visit_select_into_table(F, arg) ==
    IF ~is_some(arg) THEN F
    ELSE Bind(visit_expression(print_keyword(F, "INTO "), arg[1].table),
              LAMBDA G :
                IF is_some(arg[1].file_group)
                THEN visit_expression(print_keyword(G, "ON "),
                                      arg[1].file_group[1])
                ELSE G)

visit_table_source(F, table) ==
    IF table.source \in {"Table", "TableValuedFunction"}
    THEN Bind(visit_expression(F, table.name), LAMBDA G :
           IF is_some(table.alias)
           THEN push_str(IF table.is_as
                         THEN print_keyword(push_str(G, " "), "AS ")
                         ELSE push_str(G, " "),
                         table.alias[1])
           ELSE G)
    ELSE abort(F)

JoinKeywords ==
    [Inner |-> "INNER JOIN ", Left |-> "LEFT JOIN ",
     LeftOuter |-> "LEFT OUTER JOIN ", Right |-> "RIGHT JOIN ",
     RightOuter |-> "RIGHT OUTER JOIN ", FullOuter |-> "FULL OUTER JOIN ",
     Full |-> "FULL JOIN "]

JoinTypes == DOMAIN JoinKeywords \cup {"CrossApply", "OuterApply"}

visit_table_join_type(F, join_type) ==
    IF join_type \in DOMAIN JoinKeywords
    THEN print_keyword(F, JoinKeywords[join_type])
    ELSE abort(F)

visit_table_join(F, join) ==
    Bind(print_keyword(
             visit_table_source(visit_table_join_type(F, join.join_type),
                                join.table),
             " ON "),
         LAMBDA G : IF is_some(join.condition)
                    THEN visit_expression(G, join.condition[1]) ELSE G)

RECURSIVE visit_joins_loop(_, _, _)
visit_joins_loop(F, joins, i) ==
    IF i >= Len(joins) THEN F
    ELSE visit_joins_loop(
             visit_table_join(
                 IF i = 0 THEN print_keyword(F, "JOIN ") ELSE F,
                 joins[i + 1]),
             joins, i + 1)

visit_select_table(F, arg) ==
    IF is_some(arg)
    THEN Bind(visit_joins_loop(
                  push_str(visit_table_source(print_keyword(F, "FROM "),
                                              arg[1].table), "\n"),
                  arg[1].joins, 0),
              LAMBDA G : IF Len(arg[1].joins) > 0 THEN push_str(G, "\n")
                         ELSE G)
    ELSE abort(F)

\* visit_select_where_clause and visit_select_having
visit_select_condition(F, keyword, condition) ==
    IF is_some(condition)
    THEN push_str(visit_expression(print_keyword(F, keyword), condition[1]),
                  "\n")
    ELSE F

RECURSIVE visit_select_group_by_loop(_, _, _)
visit_select_group_by_loop(F, group_by, i) ==
    IF i >= Len(group_by) THEN F
    ELSE visit_select_group_by_loop(
             visit_expression(
                 IF i = 0 THEN print_keyword(F, "GROUP BY ")
                 ELSE print_select_column_comma(F),
                 group_by[i + 1]),
             group_by, i + 1)

visit_select_group_by(F, group_by) ==
    Bind(visit_select_group_by_loop(F, group_by, 0), LAMBDA G :
      IF Len(group_by) > 0 THEN push_str(G, "\n") ELSE G)

RECURSIVE visit_select_order_by_loop(_, _, _)
visit_select_order_by_loop(F, order_by_args, i) ==
    IF i >= Len(order_by_args) THEN F
    ELSE Bind(push_str(
                  visit_expression(
                      IF i = 0 THEN print_keyword(F, "ORDER BY ")
                      ELSE print_select_column_comma(F),
                      order_by_args[i + 1].column),
                  " "),
              LAMBDA G :
                visit_select_order_by_loop(
                    IF order_by_args[i + 1].asc = <<TRUE>>
                    THEN print_keyword(G, "ASC ")
                    ELSE IF order_by_args[i + 1].asc = <<FALSE>>
                    THEN print_keyword(G, "DESC ")
                    ELSE G,
                    order_by_args, i + 1))

visit_select_order_by(F, order_by_args) ==
    Bind(visit_select_order_by_loop(F, order_by_args, 0), LAMBDA G :
      IF Len(order_by_args) > 0 THEN push_str(G, "\n") ELSE G)

visit_select_offset_fetch_row_or_rows(F, row) ==
    print_keyword(F, IF row = "Row" THEN "ROW " ELSE "ROWS ")

visit_select_fetch_next_or_first(F, next_or_first) ==
    print_keyword(F, IF next_or_first = "Next" THEN "NEXT " ELSE "FIRST ")

visit_select_offset(F, arg) ==
    IF ~is_some(arg) THEN F
    ELSE push_str(
             visit_select_offset_fetch_row_or_rows(
                 push_str(visit_expression(print_keyword(F, "OFFSET "),
                                           arg[1].value), " "),
                 arg[1].row),
             "\n")

visit_select_fetch(F, arg) ==
    IF ~is_some(arg) THEN F
    ELSE push_str(
             print_keyword(
                 visit_select_offset_fetch_row_or_rows(
                     push_str(
                         visit_expression(
                             visit_select_fetch_next_or_first(
                                 print_keyword(F, "FETCH "), arg[1].first),
                             arg[1].value),
                         " "),
                     arg[1].row),
                 "ONLY "),
             "\n")

\* the visits of visit_select_query, in the order it makes them
SelectQueryFields ==
    <<"top", "columns", "into_table", "table", "where_clause", "group_by",
      "having", "order_by", "offset", "fetch">>

\* the call visit_select_query makes for one field of the statement
visit_select_field(F, q, field) ==
    IF field = "top" THEN visit_select_top_argument(F, q.top)
    ELSE IF field = "columns" THEN visit_select_columns(F, q.columns)
    ELSE IF field = "into_table"
    THEN visit_select_into_table(F, q.into_table)
    ELSE IF field = "table" THEN visit_select_table(F, q.table)
    ELSE IF field = "where_clause"
    THEN visit_select_condition(F, "WHERE ", q.where_clause)
    ELSE IF field = "group_by" THEN visit_select_group_by(F, q.group_by)
    ELSE IF field = "having"
    THEN visit_select_condition(F, "HAVING ", q.having)
    ELSE IF field = "order_by" THEN visit_select_order_by(F, q.order_by)
    ELSE IF field = "offset" THEN visit_select_offset(F, q.offset)
    ELSE visit_select_fetch(F, q.fetch)

\* the statements the formatter is handed
FormatterSettings ==
    [keyword_case : {"Upper", "Lower"}, indent_width : {1}, use_tab : {FALSE},
     indent_comma_lists : {Some("TrailingComma")}]

TableSources ==
    [source : {"Table", "TableValuedFunction"}, name : {"t"},
     is_as : {TRUE}, alias : {Some("u")}]

Joins ==
    [join_type : JoinTypes, table : {CHOOSE t \in TableSources : TRUE},
     condition : {Some("c")}]

TableArgs == [table : TableSources, joins : SeqsUpTo(Joins, 1)]

SelectItems ==
    {[item |-> "Wildcard"], [item |-> "Unnamed", expression |-> "x"],
     [item |-> "WithAlias", expression |-> "x", as_token |-> TRUE,
      alias |-> "y"]}

ClauseValues ==
    {[where_clause |-> w, group_by |-> g, having |-> w, order_by |-> o,
      offset |-> IF o = <<>> THEN NoneOpt
                 ELSE Some([value |-> "1", row |-> "Rows"]),
      fetch |-> IF o = <<>> \/ w = NoneOpt THEN NoneOpt
                ELSE Some([value |-> "2", row |-> "Row", first |-> "First"])] :
        w \in Options({"c"}),
        g \in SeqsUpTo({"g"}, MaxList),
        o \in SeqsUpTo([column : {"o"}, asc : {Some(FALSE)}], 1)}

VisitedStatements ==
    {[top |-> t, columns |-> c, into_table |-> i, table |-> f,
      where_clause |-> v.where_clause, group_by |-> v.group_by,
      having |-> v.having, order_by |-> v.order_by, offset |-> v.offset,
      fetch |-> v.fetch] :
        t \in Options({[quantity |-> "1", percent |-> TRUE,
                        with_ties |-> FALSE]}),
        c \in SeqsUpTo(SelectItems, MaxList) \ {<<>>},
        i \in Options({[table |-> "n", file_group |-> Some("g")]}),
        f \in Options(TableArgs),
        v \in ClauseValues}

VisitInit ==
    /\ \E settings \in FormatterSettings, q \in VisitedStatements :
          /\ call = [fn |-> "visit_select_query", query |-> q]
          /\ formatter = FormatterNew(settings)
    /\ result = <<>>
    /\ first_run = <<>>
    /\ kw_impl = "window"
    /\ KeywordIdle
    /\ LexerIdle
    /\ ParserIdle

\* visit_select_query is entered: print_keyword("SELECT ")
VisitSelectQuery ==
    /\ call # <<>> /\ call.fn = "visit_select_query"
    /\ formatter.formatted_query = <<>>
    /\ formatter' = print_keyword(formatter, "SELECT ")
    /\ UNCHANGED <<call, result, first_run, lexer_vars, keyword_vars,
                   parser_vars>>

\* the next visit of visit_select_query, unless an earlier one aborted
VisitField ==
    /\ call # <<>> /\ call.fn = "visit_select_query"
    /\ formatter.formatted_query # <<>>
    /\ ~formatter.aborted
    /\ Len(formatter.visits) < Len(SelectQueryFields)
    /\ formatter' =
          visit_select_field(
              visited(formatter,
                      SelectQueryFields[Len(formatter.visits) + 1]),
              call.query, SelectQueryFields[Len(formatter.visits) + 1])
    /\ UNCHANGED <<call, result, first_run, lexer_vars, keyword_vars,
                   parser_vars>>

VisitNext == VisitSelectQuery \/ VisitField

VisitSpec == VisitInit /\ [][VisitNext]_vars

----------------------------------------------------------------------------
(* One call of parse_expression on a stream of operators and operands *)

\* most tokens of an expression of any shape
MaxExpr == 4

ExprTokens ==
    {Punct("Minus"), Punct("Plus"), Kw("NOT"), Ident("a"), Punct("Asterisk"),
     Punct("Equal"), Kw("AND"), Kw("OR")}

PrefixOps == {Punct("Minus"), Punct("Plus"), Kw("NOT")}

\* `op a op b op c` with a prefix operator in front
PrefixExamples ==
    {<<p, Ident("a"), o1, Ident("b"), o2, Ident("c")>> :
        <<p, o1, o2>> \in PrefixOps
                          \X (ExprTokens \ {Kw("NOT"), Ident("a")})
                          \X (ExprTokens \ {Kw("NOT"), Ident("a")})}

ExprInit ==
    /\ tokens \in SeqsUpTo(ExprTokens, MaxExpr) \cup PrefixExamples
    /\ parser = ParserNew
    /\ query = <<>>
    /\ pc = "idle"
    /\ call = [fn |-> "parse_expression", precedence |-> PRECEDENCE_LOWEST]
    /\ result = <<>>
    /\ first_run = <<>>
    /\ formatter = <<>>
    /\ kw_impl = "window"
    /\ KeywordIdle
    /\ LexerIdle

ParseExpression ==
    /\ call # <<>> /\ call.fn = "parse_expression"
    /\ result = <<>>
    /\ parser' = parse_expression(parser, call.precedence).p
    /\ result' = <<parse_expression(parser, call.precedence).r>>
    /\ UNCHANGED <<tokens, query, pc, call, first_run, formatter, lexer_vars,
                   keyword_vars>>

ExprSpec == ExprInit /\ [][ParseExpression]_vars

----------------------------------------------------------------------------
(* Lexing past an error: a lexer run to its end, then a fresh lexer on the   *)
(* text after an unrecognized character                                     *)

\* "#" and the three-byte character U+20AC start no token
ResumeAlphabet == {"a", "1", " ", "-", "=", "#", "U+20AC"}

ResumeTexts == TextsOver(ResumeAlphabet, MaxLen)

ResumeInit ==
    /\ input \in ResumeTexts
    /\ lx = LexerNew
    /\ out = <<>>
    /\ ended = 0
    /\ skipped = {}
    /\ status = "running"
    /\ kw_impl = "window"
    /\ KeywordIdle
    /\ ParserIdle
    /\ CallIdle

Unrecognized(item) == item.tag = "Err" /\ item.kind = "UnrecognizedToken"

\* Lexer::new on the text after the character that out[i] reports
Restart ==
    /\ first_run = <<>>
    /\ ended > 0 \/ status = "aborted"
    /\ \E i \in DOMAIN out :
          /\ Unrecognized(out[i])
          /\ first_run' = <<[at |-> out[i].start + 1,
                             out |-> SubSeq(out, i + 1, Len(out)),
                             status |-> status]>>
          /\ input' = SubSeq(input, out[i].start + 2, Len(input))
    /\ lx' = LexerNew'
    /\ out' = <<>>
    /\ ended' = 0
    /\ skipped' = {}
    /\ status' = "running"
    /\ UNCHANGED <<call, result, formatter, keyword_vars, parser_vars>>

ResumeNext == LexerNext \/ Restart

ResumeSpec == ResumeInit /\ [][ResumeNext]_vars

----------------------------------------------------------------------------
(* parse() under a caller that lets it run, and the loops of the parser    *)
(* taken one turn at a time from any position of a token stream            *)

TurnTokens ==
    {Ident("a"), Punct("Comma"), Kw("AS"), Punct("Plus"), Kw("FROM"),
     Kw("HAVING"), Kw("ASC"), Punct("LeftParen")}

Loops ==
    {"parse_select_items", "parse_group_by_args", "parse_order_by_args",
     "parse_expression"}

\* the state a loop is entered with (lines 373-375, 575-578, 624-627, 681)
loop_entry(fn, P) ==
    IF fn = "parse_select_items"
    THEN [p |-> P, columns |-> <<>>, previous_expr |-> NoneOpt,
          comma_seen |-> FALSE, failed |-> FALSE]
    ELSE IF fn = "parse_expression"
    THEN Bind(parse_prefix_expression(P), LAMBDA left :
           [p |-> left.p, r |-> left.r, failed |-> FALSE])
    ELSE [p |-> P, args |-> <<>>, seen_arg |-> FALSE, failed |-> FALSE]

loop_continues(c, st) ==
    IF c.fn = "parse_select_items" THEN select_items_continue(st.p)
    ELSE IF c.fn = "parse_group_by_args" THEN group_by_args_continue(st.p)
    ELSE IF c.fn = "parse_order_by_args" THEN order_by_args_continue(st.p)
    ELSE infix_continues(c.precedence, st.p)

loop_turn(c, st) ==
    IF c.fn = "parse_select_items" THEN parse_select_items_turn(st)
    ELSE IF c.fn = "parse_group_by_args" THEN parse_group_by_args_turn(st)
    ELSE IF c.fn = "parse_order_by_args" THEN parse_order_by_args_turn(st)
    ELSE Bind(parse_expression_turn(st.p, st.r), LAMBDA i :
           [p |-> i.p, r |-> i.r, failed |-> ~is_some(st.r)])

TurnInit ==
    /\ tokens \in SeqsUpTo(TurnTokens, MaxRaw)
    /\ parser = ParserNew
    /\ query = <<>>
    /\ pc = "idle"
    /\ \E fn \in Loops, precedence \in {PRECEDENCE_LOWEST, PRECEDENCE_SUM},
          n \in 0..Len(tokens) :
          /\ fn # "parse_expression" => precedence = PRECEDENCE_LOWEST
          /\ call = [fn |-> fn, precedence |-> precedence]
          /\ result = <<loop_entry(fn, advanced(ParserNew, n))>>
    /\ first_run = <<>>
    /\ formatter = <<>>
    /\ kw_impl = "window"
    /\ KeywordIdle
    /\ LexerIdle

\* one turn of the loop of call.fn
LoopTurn ==
    /\ call # <<>> /\ call.fn \in Loops
    /\ ~result[1].failed
    /\ loop_continues(call, result[1])
    /\ result' = <<loop_turn(call, result[1])>>
    /\ UNCHANGED <<call, first_run, formatter, lexer_vars, keyword_vars,
                   parser_vars>>

TerminationInit == ParserInit \/ TurnInit

TerminationNext == ParserNext \/ LoopTurn

\* the caller of parse() waits for it to return
TerminationSpec ==
    TerminationInit /\ [][TerminationNext]_vars /\ WF_vars(ParserNext)

----------------------------------------------------------------------------
(* Operators: sql_parser/src/ast/expressions.rs *)

\* largest byte offset of an operator token's span
MaxSpan == 2

ComparisonTokens ==
    {"Equal", "BangEqual", "LessThanGreaterThan", "GreaterThan",
     "GreaterThanEqual", "LessThan", "LessThanEqual"}

ArithmeticTokens == {"Plus", "Minus", "Asterisk", "ForwardSlash", "PercentSign"}

\* the text of each operator token of sql_lexer::TokenKind
OperatorSymbols ==
    [Equal |-> "=", BangEqual |-> "!=", LessThanGreaterThan |-> "<>",
     GreaterThan |-> ">", GreaterThanEqual |-> ">=", LessThan |-> "<",
     LessThanEqual |-> "<=", Plus |-> "+", Minus |-> "-", Asterisk |-> "*",
     ForwardSlash |-> "/", PercentSign |-> "%"]

\* Ok(Self::new(value.location(), kind))
OkOp(span, kind) == [tag |-> "Ok", location |-> span, kind |-> kind]

\* parse_error(ParseErrorType::ExpectedKeyword)
ErrOp == [tag |-> "Err", error |-> "ExpectedKeyword"]

\* impl TryFrom<Token> for ComparisonOperator
comparison_try_from(value) ==
    IF value.kind = "Equal" THEN OkOp(value.location, "Equal")
    ELSE IF value.kind = "BangEqual"
    THEN OkOp(value.location, "NotEqualBang")
    ELSE IF value.kind = "LessThanGreaterThan"
    THEN OkOp(value.location, "NotEqualArrow")
    ELSE IF value.kind = "GreaterThan"
    THEN OkOp(value.location, "GreaterThan")
    ELSE IF value.kind = "GreaterThanEqual"
    THEN OkOp(value.location, "GreaterThanEqual")
    ELSE IF value.kind = "LessThan" THEN OkOp(value.location, "LessThan")
    ELSE IF value.kind = "LessThanEqual"
    THEN OkOp(value.location, "LessThanEqual")
    ELSE ErrOp

\* impl Display for ComparisonOperatorKind
comparison_kind_fmt(kind) ==
    IF kind = "Equal" THEN "="
    ELSE IF kind = "NotEqualBang" THEN "!="
    ELSE IF kind = "NotEqualArrow" THEN "<>"
    ELSE IF kind = "GreaterThan" THEN ">"
    ELSE IF kind = "GreaterThanEqual" THEN ">="
    ELSE IF kind = "LessThan" THEN "<="
    ELSE "<="

\* impl TryFrom<Token> for ArithmeticOperator
arithmetic_try_from(value) ==
    IF value.kind = "Plus" THEN OkOp(value.location, "Plus")
    ELSE IF value.kind = "Minus" THEN OkOp(value.location, "Minus")
    ELSE IF value.kind = "Asterisk" THEN OkOp(value.location, "Multiply")
    ELSE IF value.kind = "ForwardSlash" THEN OkOp(value.location, "Divide")
    ELSE IF value.kind = "PercentSign" THEN OkOp(value.location, "Modulus")
    ELSE ErrOp

\* impl Display for ArithmeticOperatorKind
arithmetic_kind_fmt(kind) ==
    IF kind = "Plus" THEN "+"
    ELSE IF kind = "Minus" THEN "-"
    ELSE IF kind = "Multiply" THEN "*"
    ELSE IF kind = "Divide" THEN "/"
    ELSE "%"

\* impl Display for ComparisonOperator / ArithmeticOperator:
\* write!(f, "{}", self.kind)
operator_fmt(fn, operator) ==
    IF fn = "ComparisonOperator::try_from"
    THEN comparison_kind_fmt(operator.kind)
    ELSE arithmetic_kind_fmt(operator.kind)

operator_try_from(fn, value) ==
    IF fn = "ComparisonOperator::try_from"
    THEN comparison_try_from(value)
    ELSE arithmetic_try_from(value)

OperatorInit ==
    /\ \E fn \in {"ComparisonOperator::try_from",
                  "ArithmeticOperator::try_from"},
          kind \in ComparisonTokens \cup ArithmeticTokens
                       \cup {"Comma", "Eof"},
          start \in 0..MaxSpan, end \in 0..MaxSpan :
          /\ start <= end
          /\ call = [fn |-> fn,
                     value |-> [kind |-> kind,
                                location |-> [start |-> start, end |-> end]]]
    /\ result = <<>>
    /\ first_run = <<>>
    /\ formatter = <<>>
    /\ kw_impl = "window"
    /\ KeywordIdle
    /\ LexerIdle
    /\ ParserIdle

\* the token is converted
OperatorTryFrom ==
    /\ call # <<>> /\ call.fn \in {"ComparisonOperator::try_from",
                                   "ArithmeticOperator::try_from"}
    /\ result = <<>>
    /\ result' = <<operator_try_from(call.fn, call.value)>>
    /\ UNCHANGED <<call, first_run, formatter, lexer_vars, keyword_vars,
                   parser_vars>>

\* the operator is rendered: to_string()
OperatorDisplay ==
    /\ call # <<>> /\ call.fn \in {"ComparisonOperator::try_from",
                                   "ArithmeticOperator::try_from"}
    /\ Len(result) = 1
    /\ result[1].tag = "Ok"
    /\ result' = result \o <<operator_fmt(call.fn, result[1])>>
    /\ UNCHANGED <<call, first_run, formatter, lexer_vars, keyword_vars,
                   parser_vars>>

OperatorNext == OperatorTryFrom \/ OperatorDisplay

OperatorSpec == OperatorInit /\ [][OperatorNext]_vars

----------------------------------------------------------------------------
(* Properties of the lexer and the keyword table *)

OkTokens == {i \in DOMAIN out : out[i].tag = "Ok"}

\* C1: every call of next() returns (a token, a lexical error or end of
\* stream); no call aborts on an out-of-range slice of the input.
C1_NextNeverAborts == status # "aborted"

\* C2: every spelling of ALL_KEYWORDS, in every casing, is found by
\* lookup_keyword, and the Keyword returned is the one declared for it.
C2_EveryKeywordFound ==
    (kw_result # <<>> /\ kw_index # 0)
        => kw_result[1] = ALL_KEYWORDS_INDEX[kw_index]

\* C24: ALL_KEYWORDS is in strictly ascending byte order over all of its
\* entries, and ALL_KEYWORDS_INDEX holds at each position the Keyword whose
\* spelling is at the same position of ALL_KEYWORDS.
C24_KeywordTableSorted ==
    \A i \in DOMAIN ALL_KEYWORDS :
        kw_index = i
            => /\ i < Len(ALL_KEYWORDS)
                      => str_cmp(ALL_KEYWORDS[i], ALL_KEYWORDS[i + 1]) = "Less"
               /\ i \in DOMAIN ALL_KEYWORDS_INDEX
               /\ ALL_KEYWORDS[keyword_index(ALL_KEYWORDS_INDEX[i])]
                      = ALL_KEYWORDS[i]

TwoCharKinds == {"BangEqual", "LessThanGreaterThan", "LessThanEqual",
                 "GreaterThanEqual"}

\* C3: a two-character operator token consumes both of its characters: what
\* next() returns after it starts at least two bytes after the operator's
\* first byte.
C3_TwoCharOperatorConsumed ==
    \A i \in DOMAIN out :
        (out[i].tag = "Ok" /\ out[i].kind \in TwoCharKinds /\ i < Len(out))
            => out[i + 1].start >= out[i].start + 2

\* byte length of the source text a token was read from (comments aside)
SourceLen(t) ==
    IF t.kind \in TwoCharKinds THEN 2
    ELSE IF t.kind \in {"StringLiteral", "QuotedIdentifier"}
    THEN Len(t.text) + 2
    ELSE IF t.kind = "LocalVariable" THEN Len(t.text) + 1
    ELSE IF t.kind \in {"Identifier", "Keyword", "NumberLiteral"}
    THEN Len(t.text)
    ELSE 1

\* C9: spans are half-open: span.end - span.start is the byte length of the
\* text the token was read from.
C9_SpanIsHalfOpen ==
    \A i \in OkTokens :
        out[i].kind # "Comment"
            => out[i].end - out[i].start = SourceLen(out[i])

CharAt(p) == input[p + 1]

UnexpectedEndKinds == {"UnexpectedStringEnd", "UnexpectedQuotedIdentifierEnd"}

\* offset q holds an opening delimiter that is never closed; nothing before
\* it opens a string, a bracket identifier or a comment
UnterminatedAt(q, open, close) ==
    /\ CharAt(q) = open
    /\ \A k \in (q + 1)..(Len(input) - 1) : CharAt(k) # close
    /\ \A k \in 0..(q - 1) : CharAt(k) \notin {"'", "[", "-"}

\* what the lexer has yielded is the tokens before offset q, then one error
\* of the given kind, and nothing after it
EndsWithError(q, error) ==
    /\ Len(out) >= 1
    /\ out[Len(out)].tag = "Err"
    /\ out[Len(out)].kind = error
    /\ \A i \in 1..(Len(out) - 1) :
           out[i].kind \notin UnexpectedEndKinds /\ out[i].end < q

\* C11: a string literal with no closing `'` (a bracket identifier with no
\* closing `]`) gives the tokens before it, then exactly one
\* UnexpectedStringEnd (UnexpectedQuotedIdentifierEnd), then end of stream.
C11_UnterminatedIsLastError ==
    ended >= 1
        => \A q \in 0..(Len(input) - 1) :
               /\ UnterminatedAt(q, "'", "'")
                      => EndsWithError(q, "UnexpectedStringEnd")
               /\ UnterminatedAt(q, "[", "]")
                      => EndsWithError(q, "UnexpectedQuotedIdentifierEnd")

\* [A-Za-z_] and [A-Za-z0-9_], the characters of the identifier grammar
IsRunStart(c) == IsAlphabetic(c) \/ c = "_"
IsRunChar(c) == IsAlphanumeric(c) \/ c = "_"

\* offsets i..j hold a maximal run [A-Za-z_][A-Za-z0-9_]* that starts at the
\* beginning of the text or after whitespace or a comma, outside any string,
\* bracket identifier or comment
MaximalRun(i, j) ==
    /\ IsRunStart(CharAt(i))
    /\ \A k \in i..j : IsRunChar(CharAt(k))
    /\ j = Len(input) - 1 \/ ~IsRunChar(CharAt(j + 1))
    /\ i = 0 \/ IsWhitespace(CharAt(i - 1)) \/ CharAt(i - 1) = ","
    /\ \A k \in 0..(i - 1) : CharAt(k) \notin {"'", "[", "-"}

\* C12: every maximal run [A-Za-z_][A-Za-z0-9_]* is lexed as exactly one
\* token whose text is the whole run, Keyword(k) when lookup_keyword finds
\* it and Identifier otherwise, also when the run starts with `_`.
C12_RunIsOneToken ==
    ended >= 1
        => \A i \in 0..(Len(input) - 1) : \A j \in i..(Len(input) - 1) :
               MaximalRun(i, j)
                   => /\ \E n \in DOMAIN out :
                             /\ out[n].tag = "Ok"
                             /\ out[n].start = i
                             /\ out[n].text = SubSeq(input, i + 1, j + 1)
                             /\ out[n].kw = lookup_keyword(out[n].text,
                                                           kw_impl)
                             /\ out[n].kind = IF out[n].kw # 0
                                              THEN "Keyword"
                                              ELSE "Identifier"
                      /\ \A n \in DOMAIN out :
                             out[n].start \in i..j => out[n].start = i

\* the text opens with `open` and offset c holds the first `close` after it
DelimitedUpTo(open, close, c) ==
    /\ Len(input) >= 2
    /\ CharAt(0) = open
    /\ c \in 1..(Len(input) - 1)
    /\ CharAt(c) = close
    /\ \A k \in 1..(c - 1) : CharAt(k) # close

\* the first token yielded is `kind` with the text strictly between offsets
\* 0 and c, and what is yielded next starts after offset c
FirstTokenIs(kind, c) ==
    Len(out) >= 1
        => /\ out[1].tag = "Ok"
           /\ out[1].kind = kind
           /\ out[1].start = 0
           /\ out[1].text = SubSeq(input, 2, c)
           /\ Len(out) >= 2 => out[2].start > c

\* C13: the payload of a delimited token is the text strictly between its
\* delimiters: 'x' is StringLiteral(x) and [x] is QuotedIdentifier(x) for
\* every x without the closing delimiter, the empty text included, and the
\* text after the closing delimiter is lexed next.
C13_PayloadBetweenDelimiters ==
    (status = "running" /\ Len(out) + ended >= 1)
        => \A c \in 1..(Len(input) - 1) :
               /\ DelimitedUpTo("'", "'", c)
                      => Len(out) >= 1 /\ FirstTokenIs("StringLiteral", c)
               /\ DelimitedUpTo("[", "]", c)
                      => Len(out) >= 1 /\ FirstTokenIs("QuotedIdentifier", c)

\* str::trim, on a sequence of characters
RECURSIVE TrimStart(_)
TrimStart(s) ==
    IF s # <<>> /\ IsWhitespace(Head(s)) THEN TrimStart(Tail(s)) ELSE s

RECURSIVE TrimEnd(_)
TrimEnd(s) ==
    IF s # <<>> /\ IsWhitespace(s[Len(s)])
    THEN TrimEnd(SubSeq(s, 1, Len(s) - 1)) ELSE s

Trim(s) == TrimEnd(TrimStart(s))

\* offset of the first newline at or after offset 2, Len(input) if none
LineEnd ==
    LET newlines == {k \in 2..(Len(input) - 1) : CharAt(k) = "\n"}
    IN  IF newlines = {} THEN Len(input)
        ELSE CHOOSE k \in newlines : \A m \in newlines : k <= m

\* C14: a line comment runs from `--` to the end of that line: the payload
\* is the text between `--` and the first newline (or the end of the text),
\* trimmed, and the next token is lexed from the text after that newline.
C14_CommentIsTrimmedLine ==
    (Len(input) >= 2 /\ CharAt(0) = "-" /\ CharAt(1) = "-"
     /\ (Len(out) + ended >= 1 \/ status = "aborted"))
        => /\ status = "running"
           /\ Len(out) >= 1
           /\ out[1].tag = "Ok"
           /\ out[1].kind = "Comment"
           /\ out[1].text = Trim(SubSeq(input, 3, LineEnd))
           /\ Len(out) >= 2 => out[2].start > LineEnd

----------------------------------------------------------------------------
(* Properties of the parser *)

\* the operators of a WHERE chain input, read back from the token stream
ChainOpsOf(toks) ==
    [i \in 1..((Len(toks) - 6) \div 2) |-> toks[5 + 2 * i].kind]

IsWhereInput ==
    /\ Len(tokens) >= 6
    /\ Len(tokens) % 2 = 0
    /\ Len(tokens) <= 4 + 2 * Len(ChainOperands)
    /\ tokens = WhereInput(ChainOpsOf(tokens))

\* ((a op1 b) op2 c) ...: the first n operators nested to the left
RECURSIVE LeftNested(_, _)
LeftNested(ops, n) ==
    IF n = 0 THEN Literal(Ident(ChainOperands[1]))
    ELSE Binary(LeftNested(ops, n - 1), Punct(ops[n]),
                Literal(Ident(ChainOperands[n + 1])))

SameLevel(ops) ==
    \A i, j \in DOMAIN ops : map_precedence(ops[i]) = map_precedence(ops[j])

\* the WHERE clause of the only statement parsed, <<>> if there is none
ParsedWhere == IF Len(query) = 1 THEN query[1].select.where_clause ELSE <<>>

GrammarLevel(op) ==
    IF op \in {"Asterisk", "Divide", "Mod"} THEN 5
    ELSE IF op \in {"Plus", "Minus"} THEN 4
    ELSE IF op \in {"Equal", "NotEqual", "LessThan", "LessThanEqual",
                    "GreaterThan", "GreaterThanEqual"} THEN 3
    ELSE IF op = "AND" THEN 2
    ELSE 1

GrammarOps ==
    {"OR", "AND", "Equal", "NotEqual", "LessThan", "LessThanEqual",
     "GreaterThan", "GreaterThanEqual", "Plus", "Minus", "Asterisk",
     "Divide", "Mod"}

\* the tree over operands lo..hi in which every operator sits below the
\* adjacent operators of lower level (split at the last lowest operator)
RECURSIVE Grouped(_, _, _)
Grouped(ops, lo, hi) ==
    IF lo = hi THEN Literal(Ident(ChainOperands[lo]))
    ELSE LET lowest == CHOOSE k \in lo..(hi - 1) :
                 \A j \in lo..(hi - 1) :
                     \/ GrammarLevel(ops[k]) < GrammarLevel(ops[j])
                     \/ GrammarLevel(ops[k]) = GrammarLevel(ops[j]) /\ j <= k
         IN  Binary(Grouped(ops, lo, lowest), Punct(ops[lowest]),
                    Grouped(ops, lowest + 1, hi))

\* C5: binary operators group by level OR < AND < comparison < sum <
\* product (`*`, `/`, `%`): in the tree of `a op1 b op2 c` an operator of a
\* higher level is below the adjacent operator of a lower level.
C5_GroupedByPrecedence ==
    (pc = "done" /\ IsWhereInput)
        => LET ops == ChainOpsOf(tokens)
           IN  (Len(ops) >= 1 /\ Range(ops) \subseteq GrammarOps)
                   => ParsedWhere = Some(Grouped(ops, 1, Len(ops) + 1))

\* C6: parse() reports at most one error: no second error is ever added to
\* the parser's error list.
C6_AtMostOneError == Len(parser.errors) <= 1

\* C7: a statement for which an error was recorded is not part of the
\* Query: a turn of parse() that adds an error adds no statement.
C7_NoStatementWithError ==
    [][Len(parser'.errors) > Len(parser.errors) => query' = query]_vars

\* C8: k valid SELECT statements separated by `;` give a Query of exactly
\* those k statements in order, whatever clause each one ends with.
C8_EveryStatementParsed ==
    pc = "done"
        => \A e \in EndingSeqs :
               (tokens = QueryTokens(e)
                \/ tokens = QueryTokens(e) \o <<Punct("SemiColon")>>)
                   => query = [i \in 1..Len(e) |-> StatementExpected(e[i])]

\* C15: a SELECT with any allowed subset of WHERE, GROUP BY, HAVING,
\* ORDER BY, OFFSET and FETCH, written in that order, parses to one Select
\* statement with exactly those fields populated, and no error is recorded.
C15_EveryClauseSubsetParses ==
    pc = "done"
        => \A S \in ValidClauseSets :
               tokens = ValidStatement(S)
                   => query = <<ClauseExpected(S)>> /\ parser.errors = <<>>

\* every SelectStatement of an expression / of a list of expressions /
\* below a statement, the statement itself first
RECURSIVE SelectsOfExpr(_)
RECURSIVE SelectsOfExprs(_)
RECURSIVE SelectsOfStatement(_)

ColumnExprs(columns) ==
    LET HasExpr(c) == c.item # "Wildcard"
        with_expr == SelectSeq(columns, HasExpr)
    IN  [i \in DOMAIN with_expr |-> with_expr[i].expression]

ExprsOfSelect(s) ==
    (IF is_some(s.top) THEN <<s.top[1].quantity>> ELSE <<>>)
    \o ColumnExprs(s.columns) \o s.table \o s.where_clause \o s.group_by
    \o s.having \o [i \in DOMAIN s.order_by |-> s.order_by[i].column]
    \o (IF is_some(s.offset) THEN <<s.offset[1].value>> ELSE <<>>)
    \o (IF is_some(s.fetch) THEN <<s.fetch[1].value>> ELSE <<>>)

SelectsOfExpr(e) ==
    IF e.node = "Unary" THEN SelectsOfExpr(e.right)
    ELSE IF e.node = "Binary"
    THEN SelectsOfExpr(e.left) \o SelectsOfExpr(e.right)
    ELSE IF e.node = "Grouping" THEN SelectsOfExpr(e.expression)
    ELSE IF e.node = "Subquery" THEN SelectsOfStatement(e.statement)
    ELSE <<>>

SelectsOfExprs(es) ==
    IF es = <<>> THEN <<>>
    ELSE SelectsOfExpr(Head(es)) \o SelectsOfExprs(Tail(es))

SelectsOfStatement(st) ==
    <<st.select>> \o SelectsOfExprs(ExprsOfSelect(st.select))

RECURSIVE SelectsOfQuery(_)
SelectsOfQuery(statements) ==
    IF statements = <<>> THEN <<>>
    ELSE SelectsOfStatement(Head(statements))
         \o SelectsOfQuery(Tail(statements))

\* C16: in every SelectStatement of the Query, top-level or subquery, fetch
\* is present only if offset is, and offset only if order_by is non-empty.
C16_FetchNeedsOffsetNeedsOrderBy ==
    LET selects == SelectsOfQuery(query)
    IN  \A i \in DOMAIN selects :
            /\ is_some(selects[i].fetch) => is_some(selects[i].offset)
            /\ is_some(selects[i].offset) => selects[i].order_by # <<>>

\* a statement with OFFSET and FETCH is in the Query, and so is a subquery
\* with OFFSET
C16_Witness ==
    /\ pc = "done"
    /\ tokens = SubqueryColumn(ValidStatement({"order_by", "offset"}))
    /\ LET selects == SelectsOfQuery(query)
       IN  /\ Len(selects) = 2
           /\ is_some(selects[2].offset)
           /\ selects[2].order_by # <<>>

\* SELECT <items> , FROM t
EndsWithComma ==
    /\ Len(tokens) >= 4
    /\ tokens \in SelectListInputs
    /\ tokens[Len(tokens) - 2] = Punct("Comma")

\* C17: every SelectStatement of the Query, top-level or subquery, has at
\* least one select item, and a select list that ends with a comma gives no
\* statement but an error.
C17_SelectListNotEmpty ==
    /\ LET selects == SelectsOfQuery(query)
       IN  \A i \in DOMAIN selects : Len(selects[i].columns) >= 1
    /\ (pc = "done" /\ EndsWithComma)
           => query = <<>> /\ parser.errors # <<>>

\* SELECT a , FROM t has been rejected
C17_Witness ==
    /\ pc = "done"
    /\ tokens = <<Kw("SELECT"), Ident("a"), Punct("Comma"), Kw("FROM"),
                  Ident("t")>>
    /\ query = <<>>
    /\ parser.errors # <<>>

\* the messages of make_string_error for a required list left empty
EmptyListMessage ==
    [select |-> "expected SELECT items in SELECT expression",
     group_by |-> "expected GROUP BY expression after GROUP BY",
     order_by |-> "expected ORDERED BY expression after ORDERED BY"]

\* no statement, and an error with the message `msg` was recorded
RejectedWith(msg) ==
    /\ query = <<>>
    /\ \E i \in DOMAIN parser.errors : parser.errors[i].msg = msg

\* C18: SELECT directly followed by FROM, GROUP BY with no expression and
\* ORDER BY with no item each give no statement and an error that names the
\* empty list, not the generic unexpected-token error; for SELECT FROM users
\* that error is at the FROM token.
C18_EmptyListHasOwnError ==
    pc = "done"
        => /\ tokens = SelectFromUsers
                  => /\ RejectedWith(EmptyListMessage.select)
                     /\ \A i \in DOMAIN parser.errors :
                            parser.errors[i].token = Kw("FROM")
           /\ tokens = EmptyGroupBy => RejectedWith(EmptyListMessage.group_by)
           /\ tokens = EmptyOrderBy => RejectedWith(EmptyListMessage.order_by)

\* C19: SELECT * FORM users gives no statement and an unexpected-token error
\* whose found token is the identifier FORM and whose expected token is FROM.
C19_MisspelledFromIsReported ==
    (pc = "done" /\ tokens = SelectFormUsers)
        => /\ query = <<>>
           /\ \E i \in DOMAIN parser.errors :
                  /\ parser.errors[i].msg = "expected token to be"
                  /\ parser.errors[i].token = Ident("FORM")
                  /\ parser.errors[i].expected = "FROM"

\* what SELECT (inner) FROM t and SELECT x FROM t WHERE a = (inner) are
\* to parse to, inner being the statement with the clauses of S
SubqueryColumnExpected(S) ==
    Select([SelectStatementNew EXCEPT
              !.columns = <<Unnamed(Subquery(ClauseExpected(S)))>>,
              !.table = <<Literal(Ident("t"))>>])

SubqueryWhereExpected(S) ==
    Select([SelectStatementNew EXCEPT
              !.columns = <<Unnamed(Literal(Ident("x")))>>,
              !.table = <<Literal(Ident("t"))>>,
              !.where_clause =
                  Some(Binary(Literal(Ident("a")), Punct("Equal"),
                              Subquery(ClauseExpected(S))))])

\* C20: a parenthesized SELECT parses to a Subquery holding the inner
\* statement, for every valid inner SELECT, and the enclosing select list or
\* condition goes on after its `)`; without the `)` an error is recorded and
\* no Subquery is in the Query.
C20_SubqueryForEveryInnerSelect ==
    pc = "done"
        => \A S \in ValidClauseSets :
               /\ tokens = SubqueryColumn(ValidStatement(S))
                      => /\ query = <<SubqueryColumnExpected(S)>>
                         /\ parser.errors = <<>>
               /\ tokens = SubqueryWhere(ValidStatement(S))
                      => /\ query = <<SubqueryWhereExpected(S)>>
                         /\ parser.errors = <<>>
               /\ tokens = SubqueryUnclosed(ValidStatement(S))
                      => /\ Len(SelectsOfQuery(query)) = Len(query)
                         /\ parser.errors # <<>>

\* the token the parser's lexer yields next
NextOfLexer ==
    IF parser.lexer < Len(tokens) THEN tokens[parser.lexer + 1] ELSE EofToken

\* what a call of expect_peek(call.token_kind) may change
ExpectPeekFrame ==
    IF parser.peek_token.kind = call.token_kind
    THEN /\ result' = <<TRUE>>
         /\ parser'.current_token = parser.peek_token
         /\ parser'.peek_token = NextOfLexer
         /\ parser'.lexer =
                IF parser.lexer < Len(tokens) THEN parser.lexer + 1
                ELSE parser.lexer
         /\ parser'.errors = parser.errors
    ELSE /\ result' = <<FALSE>>
         /\ Len(parser'.errors) = Len(parser.errors) + 1
         /\ SubSeq(parser'.errors, 1, Len(parser.errors)) = parser.errors
         /\ parser'.errors[Len(parser'.errors)].token = parser.peek_token
         /\ parser'.errors[Len(parser'.errors)].expected = call.token_kind
         /\ parser'.current_token = parser.current_token
         /\ parser'.peek_token = parser.peek_token
         /\ parser'.lexer = parser.lexer

\* C25: expect_peek(kind) advances exactly one token and returns true
\* without an error when the peek token has that kind; otherwise it returns
\* false, records exactly one error about the peek token and leaves current,
\* peek and the lexer position unchanged.
C25_ExpectPeekAdvancesOrRecords ==
    [][(call # <<>> /\ call.fn = "expect_peek") => ExpectPeekFrame]_vars

\* a call that found another token than the expected one, in mid-stream
C25_Witness ==
    /\ call # <<>> /\ call.fn = "expect_peek"
    /\ result = <<FALSE>>
    /\ Len(parser.errors) = 1
    /\ parser.errors[1].token = parser.peek_token
    /\ parser.peek_token.kind # "Eof"
    /\ parser.lexer = 3

----------------------------------------------------------------------------
(* Properties of ParseError *)

NewlinesBefore(text, start) == {j \in 1..start : text[j] = "\n"}

LastNewlineBefore(text, start) ==
    IF NewlinesBefore(text, start) = {} THEN 0
    ELSE CHOOSE j \in NewlinesBefore(text, start) :
             \A k \in NewlinesBefore(text, start) : k <= j

Located == call # <<>> /\ call.fn = "location" /\ result # <<>>

\* C21: location(input) gives line = 1 + the number of newlines before byte
\* offset span.start and column = 1 + the number of characters between the
\* last of them (or the start of the input) and span.start; offset 0 gives
\* line 1, column 1.
C21_LocationCountsLinesAndColumns ==
    Located
        => /\ result[1] =
                <<"line: ",
                  1 + Cardinality(NewlinesBefore(call.input, call.span.start)),
                  " col: ",
                  1 + call.span.start
                    - LastNewlineBefore(call.input, call.span.start)>>
           /\ call.span.start = 0 => result[1] = <<"line: ", 1, " col: ", 1>>

\* an error one character into the second line of a text
C21_Witness ==
    /\ Located
    /\ call.input = <<"a", "\n", "a", "a">>
    /\ call.span.start = 3
    /\ result[1] = <<"line: ", 2, " col: ", 2>>

Detailed == call # <<>> /\ call.fn = "details" /\ result # <<>>

\* every element of the sequence `part` is an element of `text`
MentionsAll(text, part) == Range(part) \subseteq Range(text)

\* C22: details() returns a message for every error kind and every found
\* token; for UnexpectedToken it names the found token's category and lists
\* the expected alternatives, also when the found token is a keyword.
C22_DetailsForEveryError ==
    Detailed
        => /\ result[1].tag = "Ok"
           /\ result[1].text # <<>>
           /\ call.error.kind = "UnexpectedToken"
                  => /\ MentionsAll(result[1].text, call.error.expected)
                     /\ call.error.token.kind \in DOMAIN FoundCategory
                            => MentionsAll(result[1].text,
                                   <<FoundCategory[call.error.token.kind]>>)
                     /\ call.error.token.kind = "Keyword"
                            => MentionsAll(result[1].text, <<"the keyword ">>)

----------------------------------------------------------------------------
(* Properties of the formatter *)

Walking == call # <<>> /\ call.fn = "visit_select_query"

\* C23: walking a select statement completes without aborting for every AST
\* shape, a statement with no table source and every join type included,
\* and visits top, columns, into-table, table, where, group-by, having,
\* order-by, offset and fetch in that order.
C23_VisitCompletesInOrder ==
    Walking
        => /\ ~formatter.aborted
           /\ formatter.visits =
                  SubSeq(SelectQueryFields, 1, Len(formatter.visits))

----------------------------------------------------------------------------
(* Properties of prefix operators *)

\* the Unary nodes of an expression tree
RECURSIVE UnaryNodes(_)
UnaryNodes(e) ==
    IF e.node = "Unary" THEN {e} \cup UnaryNodes(e.right)
    ELSE IF e.node = "Binary" THEN UnaryNodes(e.left) \cup UnaryNodes(e.right)
    ELSE IF e.node = "Grouping" THEN UnaryNodes(e.expression)
    ELSE {}

ExpressionParsed ==
    /\ call # <<>> /\ call.fn = "parse_expression"
    /\ result # <<>>

ParsedAs(stream, e) ==
    (ExpressionParsed /\ tokens = stream) => result[1] = Some(e)

LitA == Literal(Ident("a"))
LitB == Literal(Ident("b"))
LitC == Literal(Ident("c"))

\* C26: the operand of a prefix operator stops before an operator that does
\* not bind tighter than the prefix operator itself: under unary + and - the
\* operand is never a sum, a comparison or a logical expression, under NOT it
\* is never an AND or OR expression; `-a + b` is `(-a) + b`, `-a * b` is
\* `-(a * b)`, `NOT a = b AND c` is `(NOT (a = b)) AND c`.
C26_PrefixOperandsStopAtOwnLevel ==
    /\ (ExpressionParsed /\ is_some(result[1]))
          => \A u \in UnaryNodes(result[1][1]) :
                u.right.node = "Binary"
                   => map_precedence(u.right.operator.kind)
                         > map_precedence(u.operator.kind)
    /\ \A p \in {Punct("Minus"), Punct("Plus")} :
          /\ \A o \in {Punct("Minus"), Punct("Plus")} :
                ParsedAs(<<p, Ident("a"), o, Ident("b"), Punct("Asterisk"),
                           Ident("c")>>,
                         Binary(Unary(p, LitA), o, Binary(LitB, Punct("Asterisk"), LitC)))
          /\ ParsedAs(<<p, Ident("a"), Punct("Asterisk"), Ident("b"),
                        Punct("Equal"), Ident("c")>>,
                      Binary(Unary(p, Binary(LitA, Punct("Asterisk"), LitB)),
                             Punct("Equal"), LitC))
    /\ \A o \in {Kw("AND"), Kw("OR")} :
          ParsedAs(<<Kw("NOT"), Ident("a"), Punct("Equal"), Ident("b"), o,
                     Ident("c")>>,
                   Binary(Unary(Kw("NOT"), Binary(LitA, Punct("Equal"), LitB)), o, LitC))

C26_Witness ==
    /\ ExpressionParsed
    /\ tokens = <<Kw("NOT"), Ident("a"), Punct("Equal"), Ident("b"),
                  Kw("AND"), Ident("c")>>
    /\ result[1] = Some(Binary(Unary(Kw("NOT"), Binary(LitA, Punct("Equal"), LitB)),
                               Kw("AND"), LitC))
    /\ parser.current_token = Ident("c")

----------------------------------------------------------------------------
(* Properties of lexing past an error *)

\* an item of a fresh run as the run on the whole text reports it
Shifted(item, at) ==
    [item EXCEPT !.start = item.start + at, !.end = item.end + at]

RunOver == ended > 0 \/ status = "aborted"

\* C27: a call that reports UnrecognizedToken leaves the cursor one character
\* after the character it reports, and from there the lexer yields what a
\* fresh lexer yields on the text after that character.
C27_ScanningContinuesPastUnrecognized ==
    /\ [][(Len(out') = Len(out) + 1 /\ Unrecognized(out'[Len(out')]))
             => lx'.current_position = out'[Len(out')].start + 1]_vars
    /\ [](first_run # <<>> /\ RunOver
             => /\ status = first_run[1].status
                /\ first_run[1].out
                      = [i \in DOMAIN out |-> Shifted(out[i], first_run[1].at)])

----------------------------------------------------------------------------
(* Properties of the length of a lexer run *)

\* C28: a call of next() that returns Some moves the cursor over at least one
\* character of the input, so at most len(input) items are yielded and None
\* is returned by call len(input) + 1 at the latest; after the first None
\* every call returns None.
C28_LexingTerminates ==
    /\ [][Len(out') > Len(out)
             => /\ lx.current_position < Len(input)
                /\ lx'.current_position > lx.current_position]_vars
    /\ [](Len(out) <= Len(input))
    /\ <>(ended > 0)
    /\ [][ended > 0 => out' = out]_vars

----------------------------------------------------------------------------
(* Properties of the loops of the parser *)

\* the tokens of the stream that the parser has not yet moved past
ahead(P) ==
    (Len(tokens) - P.lexer) + (IF P.peek_token.kind # "Eof" THEN 1 ELSE 0)

unread(P) == ahead(P) + (IF P.current_token.kind # "Eof" THEN 1 ELSE 0)

\* C29: every turn of the statement loop of parse() and of the loops of
\* parse_select_items, parse_group_by_args, parse_order_by_args and
\* parse_expression moves the parser past at least one token of the stream,
\* and parse() returns, with the current token at Eof.
C29_ParseTerminates ==
    /\ [][pc = "parsing" => unread(parser') < unread(parser) \/ pc' = "done"]_vars
    /\ [][(call # <<>> /\ call.fn \in Loops)
             => ahead(result'[1].p) < ahead(result[1].p)]_vars
    /\ (pc = "parsing") ~> (pc = "done")
    /\ [](pc = "done" => parser.current_token.kind = "Eof")

C29_Witness ==
    /\ pc = "done"
    /\ Len(query) = 2
    /\ query[1].select.group_by # <<>>
    /\ query[2].select.order_by # <<>>
    /\ parser.errors = <<>>

----------------------------------------------------------------------------
(* Properties of the operators *)

OperatorCall(fn, kinds) ==
    /\ call # <<>> /\ call.fn = fn
    /\ call.value.kind \in kinds

ComparisonCall == OperatorCall("ComparisonOperator::try_from", ComparisonTokens)

ArithmeticCall == OperatorCall("ArithmeticOperator::try_from", ArithmeticTokens)

\* C30: a comparison token converts to a ComparisonOperator and an arithmetic
\* token to an ArithmeticOperator, the operator keeps the token's span, and
\* its rendering is the symbol of the token it was converted from.
C30_OperatorTextRoundTrips ==
    (ComparisonCall \/ ArithmeticCall)
        => /\ Len(result) >= 1
                 => /\ result[1].tag = "Ok"
                    /\ result[1].location = call.value.location
           /\ Len(result) = 2
                 => result[2] = OperatorSymbols[call.value.kind]

====
